---------------------------- MODULE Spec2Model ----------------------------
(***************************************************************************)
(* MCP Incident Slayer: the policy-gated remediation executor.             *)
(*                                                                         *)
(* Two processes are modelled, as in the repository:                       *)
(*   - the REST server (server.js): the remediation-executor router        *)
(*     (POST /execute, GET /history) on top of the shared sql.js database  *)
(*     helper (lib/database);                                              *)
(*   - the MCP server (mcp-server.js): the execute_remediation tool.       *)
(*                                                                         *)
(* JavaScript values are tagged records (Undef, Null, Str, Num, Obj); a    *)
(* string is a sequence of atoms, where request input uses one atom per    *)
(* character and the literal parts of a template string are one atom each. *)
(***************************************************************************)
EXTENDS Integers, Sequences, FiniteSets, TLC

\* ------------------------------------------------------------------------
\* Bounds of the model
\* ------------------------------------------------------------------------

\* number of HTTP requests the REST server receives in one run, not counting
\* the GET /history requests a ready router serves
MaxReq == 2

\* last millisecond tick of the wall clock
MaxClock == 1

\* number of execute_remediation calls the MCP server receives in one run
MaxMcpCalls == 2

\* how far below MinReplicas and above MaxReplicas the replicas sent to the
\* validators reach
ReplicasMargin == 2

\* ------------------------------------------------------------------------
\* JavaScript values
\* ------------------------------------------------------------------------

Undef == [t |-> "undef", s |-> <<>>, n |-> 0, o |-> <<>>]

Null == [t |-> "null", s |-> <<>>, n |-> 0, o |-> <<>>]

Str(s) == [t |-> "str", s |-> s, n |-> 0, o |-> <<>>]

Num(n) == [t |-> "num", s |-> <<>>, n |-> n, o |-> <<>>]

Bool(b) == [t |-> "bool", s |-> <<>>, n |-> IF b THEN 1 ELSE 0, o |-> <<>>]

\* an array
Arr(items) == [t |-> "arr", s |-> <<>>, n |-> 0, o |-> items]

\* an object: its own properties, in insertion order, as <<key, value>> pairs
Obj(pairs) == [t |-> "obj", s |-> <<>>, n |-> 0, o |-> pairs]

\* obj[key] for a key Object.prototype does not define
Get(obj, key) ==
    IF obj.t = "obj" /\ \E i \in 1..Len(obj.o) : obj.o[i][1] = key
    THEN obj.o[CHOOSE i \in 1..Len(obj.o) : obj.o[i][1] = key][2]
    ELSE Undef

\* !v
Falsy(v) ==
    \/ v.t \in {"undef", "null"}
    \/ v.t = "str" /\ v.s = <<>>
    \/ v.t = "num" /\ v.n = 0
    \/ v.t = "bool" /\ v.n = 0

\* `${v}` throws a TypeError: an object whose own toString is not callable
\* (any value JSON can carry) has no primitive value
ToStringThrows(v) == v.t = "obj" /\ Get(v, "toString") # Undef

Digit == <<"0", "1", "2", "3", "4", "5", "6", "7", "8", "9">>

RECURSIVE Digits(_)
\* the decimal digits of a natural number
Digits(n) == IF n < 10 THEN <<Digit[n + 1]>> ELSE Digits(n \div 10) \o <<Digit[(n % 10) + 1]>>

\* String(n) for an integer
NumToString(n) == IF n < 0 THEN <<"-">> \o Digits(-n) ELSE Digits(n)

RECURSIVE ParseDigits(_)
\* the natural number a sequence of digits denotes
ParseDigits(s) ==
    IF s = <<>> THEN 0
    ELSE 10 * ParseDigits(SubSeq(s, 1, Len(s) - 1))
         + ((CHOOSE d \in 1..10 : Digit[d] = s[Len(s)]) - 1)

\* JSON.stringify of a primitive
JsonToken(v) ==
    CASE v.t = "str" -> <<"\"">> \o v.s \o <<"\"">>
      [] v.t = "num" -> NumToString(v.n)
      [] v.t = "bool" -> IF v.n = 1 THEN <<"true">> ELSE <<"false">>
      [] OTHER -> <<"null">>

\* JSON.parse of a primitive's text
JsonUntoken(tok) ==
    CASE tok = <<"null">> -> Null
      [] tok = <<"true">> -> Bool(TRUE)
      [] tok = <<"false">> -> Bool(FALSE)
      [] Head(tok) = "\"" -> Str(SubSeq(tok, 2, Len(tok) - 1))
      [] Head(tok) = "-" -> Num(-ParseDigits(Tail(tok)))
      [] OTHER -> Num(ParseDigits(tok))

RECURSIVE JsonStringify(_)
RECURSIVE JsonParse(_)

\* JSON.stringify: an object becomes the list of its <<key, text>> members,
\* members whose value is undefined are dropped
JsonStringify(v) ==
    IF v.t # "obj" THEN <<"prim", JsonToken(v)>>
    ELSE LET kept == SelectSeq(v.o, LAMBDA p : p[2].t # "undef")
         IN  <<"obj", [i \in 1..Len(kept) |-> <<kept[i][1], JsonStringify(kept[i][2])>>]>>

\* JSON.parse
JsonParse(text) ==
    IF text[1] = "prim" THEN JsonUntoken(text[2])
    ELSE Obj([i \in 1..Len(text[2]) |-> <<text[2][i][1], JsonParse(text[2][i][2])>>])


\* ------------------------------------------------------------------------
\* Allowed Actions Registry (tools/remediation-executor)
\* ------------------------------------------------------------------------

LowerAlnum ==
    {"a", "b", "c", "d", "e", "f", "g", "h", "i", "j", "k", "l", "m",
     "n", "o", "p", "q", "r", "s", "t", "u", "v", "w", "x", "y", "z",
     "0", "1", "2", "3", "4", "5", "6", "7", "8", "9"}

\* /^[a-z0-9-]+$/.test(v.s)
ServiceRegex(s) == Len(s) >= 1 /\ \A i \in 1..Len(s) : s[i] \in LowerAlnum \cup {"-"}

\* /^#?[a-z0-9_-]+$/.test(v.s)
ChannelRegex(s) ==
    LET rest == IF s # <<>> /\ Head(s) = "#" THEN Tail(s) ELSE s
    IN  Len(rest) >= 1 /\ \A i \in 1..Len(rest) : rest[i] \in LowerAlnum \cup {"_", "-"}

MinReplicas == 1

MaxReplicas == 20

MinMessageLen == 1

MaxMessageLen == 2000

\* Object.keys(ALLOWED_ACTIONS)
ALLOWED_ACTIONS == <<"scale_pods", "restart_service", "notify_slack">>

\* the names every object inherits from Object.prototype
ObjectPrototypeKeys ==
    {"constructor", "toString", "toLocaleString", "valueOf", "hasOwnProperty",
     "isPrototypeOf", "propertyIsEnumerable", "__proto__",
     "__defineGetter__", "__defineSetter__", "__lookupGetter__", "__lookupSetter__"}

IsOwnAction(action) == \E i \in 1..Len(ALLOWED_ACTIONS) : ALLOWED_ACTIONS[i] = action

\* ALLOWED_ACTIONS[action]: "def" for an own entry, "inherited" for a member of
\* Object.prototype (truthy, and without required_params), else "undefined"
LookupAction(action) ==
    IF IsOwnAction(action) THEN "def"
    ELSE IF action \in ObjectPrototypeKeys THEN "inherited"
    ELSE "undefined"

\* actionDef.required_params
required_params(action) ==
    CASE action = "scale_pods" -> <<"service", "replicas">>
      [] action = "restart_service" -> <<"service">>
      [] action = "notify_slack" -> <<"channel", "message">>

\* params[required] === undefined || === null || === ''
IsMissing(v) == v.t \in {"undef", "null"} \/ (v.t = "str" /\ v.s = <<>>)

\* the first required parameter the loop finds missing, "" when there is none
FirstMissing(action, params) ==
    LET req == required_params(action)
        miss == {i \in 1..Len(req) : IsMissing(Get(params, req[i]))}
    IN  IF miss = {} THEN "" ELSE req[CHOOSE i \in miss : \A j \in miss : i <= j]

ServiceError(params) ==
    IF Get(params, "service").t # "str" \/ ~ServiceRegex(Get(params, "service").s)
    THEN <<"service must be a lowercase alphanumeric string with dashes">>
    ELSE <<>>

\* a range check that lets 0 through
ReplicasErrorFromZero(params) ==
    IF \/ Get(params, "replicas").t # "num"
       \/ Get(params, "replicas").n < 0
       \/ Get(params, "replicas").n > MaxReplicas
    THEN <<"replicas must be a number between 1 and 20">>
    ELSE <<>>

ReplicasError(params) ==
    IF \/ Get(params, "replicas").t # "num"
       \/ Get(params, "replicas").n < MinReplicas
       \/ Get(params, "replicas").n > MaxReplicas
    THEN <<"replicas must be a number between 1 and 20">>
    ELSE <<>>

ChannelError(params) ==
    IF Get(params, "channel").t # "str" \/ ~ChannelRegex(Get(params, "channel").s)
    THEN <<"channel must be a valid Slack channel name">>
    ELSE <<>>

MessageError(params) ==
    IF \/ Get(params, "message").t # "str"
       \/ Len(Get(params, "message").s) < MinMessageLen
       \/ Len(Get(params, "message").s) > MaxMessageLen
    THEN <<"message must be a string between 1 and 2000 characters">>
    ELSE <<>>

\* a validator that returns at its first error
validateFirst(action, params) ==
    CASE action = "scale_pods" ->
            IF ServiceError(params) # <<>> THEN ServiceError(params) ELSE ReplicasError(params)
      [] action = "restart_service" -> ServiceError(params)
      [] action = "notify_slack" ->
            IF ChannelError(params) # <<>> THEN ChannelError(params) ELSE MessageError(params)

\* actionDef.validate(params): the list of errors
validate(action, params) ==
    CASE action = "scale_pods" -> ServiceError(params) \o ReplicasError(params)
      [] action = "restart_service" -> ServiceError(params)
      [] action = "notify_slack" -> ChannelError(params) \o MessageError(params)

\* a || b
OrElse(a, b) == IF Falsy(a) THEN b ELSE a

\* actionDef.simulate(params) throws when a template string cannot convert
SimulateThrows(action, params) ==
    CASE action = "scale_pods" ->
            ToStringThrows(Get(params, "service")) \/ ToStringThrows(Get(params, "replicas"))
      [] action = "restart_service" -> ToStringThrows(Get(params, "service"))
      [] action = "notify_slack" -> ToStringThrows(Get(params, "channel"))

\* actionDef.simulate(params): the effect payload. The fields drawn from
\* Math.random() and the clock feed no decision and are left out.
simulate(action, params) ==
    CASE action = "scale_pods" ->
            Obj(<< <<"message", Str(<<"Scaled ">> \o Get(params, "service").s \o <<" to ">>
                                    \o NumToString(Get(params, "replicas").n) \o <<" replicas">>)>>,
                   <<"new_replicas", Get(params, "replicas")>> >>)
      [] action = "restart_service" ->
            Obj(<< <<"message", Str(<<"Rolling restart initiated for ">> \o Get(params, "service").s)>>,
                   <<"strategy", OrElse(Get(params, "strategy"), Str(<<"rolling">>))>> >>)
      [] action = "notify_slack" ->
            Obj(<< <<"message", Str(<<"Notification sent to ">> \o Get(params, "channel").s)>>,
                   <<"slack_message", Get(params, "message")>>,
                   <<"severity", OrElse(Get(params, "severity"), Str(<<"info">>))>>,
                   <<"delivered", Bool(TRUE)>> >>)


\* ------------------------------------------------------------------------
\* Request input
\* ------------------------------------------------------------------------

\* a params object that passes the scale_pods and restart_service checks
ScaleParams == Obj(<< <<"service", Str(<<"a", "p", "i">>)>>, <<"replicas", Num(5)>> >>)

\* a params object without the key replicas
ServiceOnlyParams == Obj(<< <<"service", Str(<<"a", "p", "i">>)>> >>)

\* a params object the scale_pods validator refuses twice
BadScaleParams == Obj(<< <<"service", Str(<<"A", "p", "i">>)>>, <<"replicas", Num(21)>> >>)

\* a params object that passes the notify_slack checks
SlackParams ==
    Obj(<< <<"channel", Str(<<"#", "o", "p", "s">>)>>, <<"message", Str(<<"h", "i">>)>> >>)

\* req.body of POST /execute as <<action, params>>: a field absent, names
\* outside the registry, and each registered action with parameters that
\* pass, lack a key or fail the validator
ExecuteInputs ==
    {<<Undef, ScaleParams>>,
     <<Str(<<"scale_pods">>), Undef>>,
     <<Str(<<"delete_all">>), Undef>>,
     <<Str(<<"delete_all">>), ScaleParams>>,
     <<Str(<<"constructor">>), ScaleParams>>,
     <<Str(<<"scale_pods">>), ScaleParams>>,
     <<Str(<<"scale_pods">>), ServiceOnlyParams>>,
     <<Str(<<"scale_pods">>), BadScaleParams>>,
     <<Str(<<"restart_service">>), ServiceOnlyParams>>,
     <<Str(<<"restart_service">>), SlackParams>>,
     <<Str(<<"notify_slack">>), SlackParams>>,
     <<Str(<<"notify_slack">>), ServiceOnlyParams>>}

\* req.query.status of GET /history
StatusInputs ==
    {Undef, Str(<<>>), Str(<<"success">>), Str(<<"rejected">>), Str(<<"error">>),
     Str(<<"bogus">>)}

\* req.query.limit of GET /history
LimitInputs ==
    {Undef, Str(<<"0">>), Str(<<"1">>), Str(<<"2">>), Str(<<"-", "3">>),
     Str(<<"2", "0", "1">>), Str(<<"a", "b", "c">>)}

\* the queries of GET /history the REST server is sent
HistoryInputs ==
    {<<Undef, Undef>>, <<Str(<<"success">>), Undef>>, <<Str(<<"bogus">>), Undef>>,
     <<Undef, Str(<<"1">>)>>}

\* a request and, once it is answered, its response
\*   code, body, data    the response: status code, JSON body, body.data
\*   simulated           how many times the handler called actionDef.simulate
\*   appended            how many rows the handler added to the actions table
\*   insertThrew         the handler's INSERT threw
\*   queued              how many requests awaited the database with this one
\*   log                 req.query.level of GET /logs, req.body of POST /logs
\*   repeated            GET /history: the request answered just before it
\*                       was GET /history with the same status and limit
\*   same                GET /history: if repeated, the two responses are equal
\*   inLogsInit          the request awaits the database inside the
\*                       ensureTables() of logs-db
NoRequest ==
    [kind |-> "none", action |-> Undef, params |-> Undef,
     status |-> Undef, limit |-> Undef, log |-> Undef,
     code |-> 0, body |-> Undef, data |-> <<>>, simulated |-> 0, appended |-> 0,
     insertThrew |-> FALSE, queued |-> 0, repeated |-> FALSE, same |-> TRUE,
     inLogsInit |-> FALSE]

ExecuteRequest(action, params) ==
    [NoRequest EXCEPT !.kind = "execute", !.action = action, !.params = params]

HistoryRequest(status, limit) ==
    [NoRequest EXCEPT !.kind = "history", !.status = status, !.limit = limit]

\* req.query.level of GET /logs
LevelInputs == {Undef, Str(<<"bogus">>)}

\* req.body of POST /logs
LogInputs ==
    {Obj(<< <<"level", Str(<<"error">>)>>, <<"service", Str(<<"a", "p", "i">>)>>,
            <<"message", Str(<<"d", "o", "w", "n">>)>> >>),
     Obj(<< <<"level", Str(<<"bogus">>)>>, <<"service", Str(<<"a", "p", "i">>)>>,
            <<"message", Str(<<"d", "o", "w", "n">>)>> >>),
     Obj(<< <<"level", Str(<<"error">>)>>, <<"service", Str(<<"a", "p", "i">>)>>,
            <<"message", Num(503)>> >>),
     Obj(<< <<"service", Str(<<"a", "p", "i">>)>> >>)}

ActionsRequest == [NoRequest EXCEPT !.kind = "actions"]

LogsRequest(level) == [NoRequest EXCEPT !.kind = "logs", !.log = level]

PostLogRequest(body) == [NoRequest EXCEPT !.kind = "postlog", !.log = body]

MetricsRequest == [NoRequest EXCEPT !.kind = "metrics"]

\* the requests that pass the middleware of logs-db
Requests ==
    {ExecuteRequest(e[1], e[2]) : e \in ExecuteInputs}
        \cup {HistoryRequest(h[1], h[2]) : h \in HistoryInputs}
        \cup {ActionsRequest}
        \cup {LogsRequest(l) : l \in LevelInputs}
        \cup {PostLogRequest(b) : b \in LogInputs}

\* ------------------------------------------------------------------------
\* State
\* ------------------------------------------------------------------------

VARIABLES
    db,           \* lib/database: db is null ("null") or an open database ("open")
    initPromise,  \* lib/database: "null", "pending" or "resolved"
    saveTimer,    \* lib/database: the autosave interval is running
    mem,          \* the open database: its tables and the rows of `actions`
    disk,         \* DB_FILE: whether it exists, and the database it holds
    tablesReady,  \* remediation-executor: tablesReady
    logsReady,    \* logs-db: tablesReady
    waiters,      \* requests awaiting initPromise, in order
    microQ,       \* requests whose await has resolved, not yet resumed
    received,     \* number of requests received so far that count against MaxReq
    last,         \* the request answered last, with its response
    acked,        \* the responses that carried an execution_id, in order
    now,          \* Date.now()
    nextId,       \* the uuids drawn so far
    tieOrder,     \* how this build's SQLite orders rows with equal sort keys
    closing,      \* a shutdown signal was received
    executions,   \* MCP server: rows of the executions table
    remediationCounter, \* MCP server: remediationCounter
    mcpTables,    \* MCP server: the tables of its database
    mcpCalls,     \* MCP server: number of execute_remediation calls so far
    mcpLast,      \* MCP server: the last execute_remediation call and its answer
    mcpHistory,   \* MCP server: the last get_incident_history call and its answer
    slackWebhook, \* MCP server: process.env.SLACK_WEBHOOK_URL is set
    metricsHistory, \* metrics-fetcher: metricsHistory
    anomalyMode,  \* metrics-fetcher: anomalyMode
    dbInit,       \* lib/database: initializations in flight, files loaded or created,
                  \* autosave intervals running
    sessions,     \* MCP server: the sessions map, its entries in insertion order
    transports,   \* MCP server: the transports createSession() made
    sessionLast   \* MCP server: the last /mcp request and where it was routed

restVars ==
    <<db, initPromise, saveTimer, mem, disk, tablesReady, logsReady, waiters, microQ,
      received, last, acked, now, nextId, tieOrder, closing>>

mcpVars ==
    <<executions, remediationCounter, mcpTables, mcpCalls, mcpLast, mcpHistory, slackWebhook>>

metricsVars == <<metricsHistory, anomalyMode>>

libVars == <<dbInit>>

sessionVars == <<sessions, transports, sessionLast>>

vars == <<restVars, mcpVars, metricsVars, libVars, sessionVars>>

\* new SQL.Database()
\* a database without tables; of the logs table the model keeps the number
\* of rows and the ids of the rows POST /logs inserted
EmptyDatabase == [tables |-> {}, actions |-> <<>>, logs |-> 0, logIds |-> <<>>]

NoFile == [exists |-> FALSE, data |-> EmptyDatabase]

\* ------------------------------------------------------------------------
\* lib/database
\* ------------------------------------------------------------------------

\* new Date(t).toISOString(): fixed width, so that text order is time order
toISOString(t) == <<"2026-01-01T00:00:00.0">> \o Digits(t \div 10) \o Digits(t % 10) \o <<"Z">>

\* a variant of uuidv4 that returns one id every time
uuidv4Fixed(n) == <<"uuid-0">>

\* uuidv4(): an id no earlier call returned
uuidv4(n) == <<"uuid-">> \o Digits(n)

\* a saveToDisk that writes nothing
saveToDiskSkipped(dbNow, memNow, diskNow) == diskNow

\* saveToDisk(): the file after the call
saveToDisk(dbNow, memNow, diskNow) ==
    IF dbNow = "null" THEN diskNow ELSE [exists |-> TRUE, data |-> memNow]

\* database.exec(CREATE TABLE IF NOT EXISTS actions ...)
CreateActionsTable(memNow) == [memNow EXCEPT !.tables = @ \cup {"actions"}]

\* database.run(INSERT INTO actions ...) throws: no database, no table, or
\* the PRIMARY KEY is taken
InsertThrows(dbNow, memNow, row) ==
    \/ dbNow = "null"
    \/ "actions" \notin memNow.tables
    \/ \E i \in 1..Len(memNow.actions) : memNow.actions[i].id = row.id

\* error.message of the insert that throws
InsertError(dbNow, memNow) ==
    IF dbNow = "null" THEN <<"Database not initialized. Call getDatabase() first.">>
    ELSE IF "actions" \notin memNow.tables THEN <<"no such table: actions">>
    ELSE <<"UNIQUE constraint failed: actions.id">>

\* an INSERT OR REPLACE that keeps one row
InsertActionReplace(memNow, row) == [memNow EXCEPT !.actions = <<row>>]

\* database.run(INSERT INTO actions ...)
InsertAction(memNow, row) == [memNow EXCEPT !.actions = Append(@, row)]

\* number of entries seedSampleLogs() inserts
SeedCount == 17

\* database.exec(CREATE TABLE IF NOT EXISTS logs ...)
CreateLogsTable(memNow) == [memNow EXCEPT !.tables = @ \cup {"logs"}]

\* seedSampleLogs(): the inserts; the caller saves to disk
seedSampleLogs(memNow) == [memNow EXCEPT !.logs = @ + SeedCount]

\* an ensureTables() that seeds without counting the rows
EnsureLogsTableSeeding(memNow) == seedSampleLogs(CreateLogsTable(memNow))

\* logs-db ensureTables() after its await: the table is created, and seeded
\* when it is empty
EnsureLogsTable(memNow) ==
    IF memNow.logs = 0 THEN seedSampleLogs(CreateLogsTable(memNow)) ELSE CreateLogsTable(memNow)

\* a statement on the logs table throws
LogsThrows(dbNow, memNow) == dbNow = "null" \/ "logs" \notin memNow.tables

\* database.queryAll(SELECT ... FROM actions) throws
QueryThrows(dbNow, memNow) == dbNow = "null" \/ "actions" \notin memNow.tables


\* the place of a character in SQLite's BINARY collation, as far as the
\* digits of a timestamp go
AtomRank(a) ==
    CASE a = "0" -> 1 [] a = "1" -> 2 [] a = "2" -> 3 [] a = "3" -> 4 [] a = "4" -> 5
      [] a = "5" -> 6 [] a = "6" -> 7 [] a = "7" -> 8 [] a = "8" -> 9 [] a = "9" -> 10
      [] OTHER -> 0

\* a < b as SQLite compares TEXT
TextLess(a, b) ==
    \/ \E i \in 1..Len(a) :
          /\ i <= Len(b)
          /\ \A j \in 1..(i - 1) : AtomRank(a[j]) = AtomRank(b[j])
          /\ AtomRank(a[i]) < AtomRank(b[i])
    \/ /\ Len(a) < Len(b)
       /\ \A j \in 1..Len(a) : AtomRank(a[j]) = AtomRank(b[j])

\* ORDER BY timestamp DESC: row i comes before row j; rows with equal
\* timestamps come in rowid order, ascending or descending
ComesBefore(rows, i, j, tie) ==
    \/ TextLess(rows[j].timestamp, rows[i].timestamp)
    \/ /\ rows[i].timestamp = rows[j].timestamp
       /\ IF tie = "asc" THEN i < j ELSE i > j

\* how many rows come before row i
RowsBefore(rows, i, tie) == Cardinality({j \in 1..Len(rows) : ComesBefore(rows, j, i, tie)})

\* the rows in ORDER BY timestamp DESC order
OrderByTimestampDesc(rows, tie) ==
    LET before == [i \in 1..Len(rows) |-> RowsBefore(rows, i, tie)]
    IN  [k \in 1..Len(rows) |-> rows[CHOOSE i \in 1..Len(rows) : before[i] = k - 1]]

\* LIMIT n
Limit(rows, n) == SubSeq(rows, 1, IF n < Len(rows) THEN n ELSE Len(rows))

\* ------------------------------------------------------------------------
\* remediation-executor: POST /execute
\* ------------------------------------------------------------------------

NoRow ==
    [id |-> <<>>, timestamp |-> <<>>, action |-> Undef, params |-> <<>>,
     result |-> <<>>, status |-> "", duration_ms |-> 0]

\* the key the action string names
ActionName(action) == IF action.t = "str" /\ Len(action.s) = 1 THEN action.s[1] ELSE ""

\* a response that writes nothing
Respond(code, body, simulated) ==
    [code |-> code, body |-> Obj(body), insert |-> FALSE, row |-> NoRow, simulated |-> simulated]

\* a response sent after database.run(INSERT ...) and saveToDisk()
RespondAfterInsert(code, body, row, simulated) ==
    [code |-> code, body |-> Obj(body), insert |-> TRUE, row |-> row, simulated |-> simulated]

\* the catch block: 500 Internal error
InternalError(details, simulated) ==
    Respond(500, << <<"success", Bool(FALSE)>>, <<"error", Str(<<"Internal error">>)>>,
                    <<"details", Str(details)>> >>, simulated)

MissingAction ==
    Respond(400, << <<"success", Bool(FALSE)>>,
                    <<"error", Str(<<"Missing required field: action">>)>> >>, 0)

MissingParams ==
    Respond(400, << <<"success", Bool(FALSE)>>,
                    <<"error", Str(<<"Missing or invalid field: params (must be an object)">>)>> >>, 0)

\* the policy rejection: one audit row with status rejected, then 403
PolicyRejection(action, params, id, ts, dur) ==
    RespondAfterInsert(403,
        << <<"success", Bool(FALSE)>>,
           <<"error", Str(<<"Action \"">> \o action.s \o <<"\" is not permitted by policy">>)>>,
           <<"allowed_actions", Arr([i \in 1..Len(ALLOWED_ACTIONS) |-> Str(<<ALLOWED_ACTIONS[i]>>)])>>,
           <<"execution_id", Str(id)>> >>,
        [id |-> id, timestamp |-> ts, action |-> action,
         params |-> JsonStringify(params),
         result |-> JsonStringify(Obj(<< <<"error",
                        Str(<<"Action \"">> \o action.s \o <<"\" is not allowed">>)>> >>)),
         status |-> "rejected", duration_ms |-> dur],
        0)

\* a variant of MissingParameter that audits the failure as a record
MissingParameterAudited(required) ==
    RespondAfterInsert(400,
        << <<"success", Bool(FALSE)>>,
           <<"error", Str(<<"Missing required parameter: ", required>>)>> >>,
        [NoRow EXCEPT !.id = <<"uuid-missing">>, !.status = "error"], 0)

MissingParameter(required) ==
    Respond(400, << <<"success", Bool(FALSE)>>,
                    <<"error", Str(<<"Missing required parameter: ", required>>)>> >>, 0)

\* a variant of ValidationFailed that audits the failure as a record
ValidationFailedAudited(validationErrors) ==
    RespondAfterInsert(400,
        << <<"success", Bool(FALSE)>>, <<"error", Str(<<"Parameter validation failed">>)>> >>,
        [NoRow EXCEPT !.id = <<"uuid-invalid">>, !.status = "error"], 0)

ValidationFailed(validationErrors) ==
    Respond(400, << <<"success", Bool(FALSE)>>,
                    <<"error", Str(<<"Parameter validation failed">>)>>,
                    <<"validation_errors",
                      Arr([i \in 1..Len(validationErrors) |-> Str(<<validationErrors[i]>>)])>> >>, 0)

\* the success path: one audit row with status success, then 200
Executed(action, params, simulationResult, id, ts, dur) ==
    RespondAfterInsert(200,
        << <<"success", Bool(TRUE)>>, <<"execution_id", Str(id)>>, <<"action", action>>,
           <<"params", params>>, <<"result", simulationResult>>,
           <<"duration_ms", Num(dur)>>, <<"timestamp", Str(ts)>> >>,
        [id |-> id, timestamp |-> ts, action |-> action,
         params |-> JsonStringify(params),
         result |-> JsonStringify(simulationResult),
         status |-> "success", duration_ms |-> dur],
        1)

\* const simulationResult = actionDef.simulate(params), and what follows it
SimulateStep(action, params, id, ts, dur) ==
    IF SimulateThrows(ActionName(action), params)
    THEN InternalError(<<"Cannot convert object to primitive value">>, 1)
    ELSE Executed(action, params, simulate(ActionName(action), params), id, ts, dur)

\* a variant of ValidateStep that simulates whatever the validator said
ValidateStepIgnored(validationErrors, action, params, id, ts, dur) ==
    SimulateStep(action, params, id, ts, dur)

\* if (validationErrors.length > 0) return 400, else go on to simulate
ValidateStep(validationErrors, action, params, id, ts, dur) ==
    IF validationErrors # <<>>
    THEN ValidationFailed(validationErrors)
    ELSE SimulateStep(action, params, id, ts, dur)

\* a variant of RequiredStep that goes on with a parameter missing
RequiredStepIgnored(missing, action, params, id, ts, dur) ==
    SimulateStep(action, params, id, ts, dur)

\* the loop over actionDef.required_params returns 400 at the first
\* missing one, else the parameters are validated
RequiredStep(missing, action, params, id, ts, dur) ==
    IF missing # ""
    THEN MissingParameter(missing)
    ELSE ValidateStep(validate(ActionName(action), params), action, params, id, ts, dur)

\* the policy check on actionDef = ALLOWED_ACTIONS[action]
PolicyStep(actionDef, action, params, id, ts, dur) ==
    IF actionDef = "undefined"
    THEN PolicyRejection(action, params, id, ts, dur)
    ELSE IF actionDef = "inherited"
    THEN InternalError(<<"actionDef.required_params is not iterable">>, 0)
    ELSE RequiredStep(FirstMissing(ActionName(action), params), action, params, id, ts, dur)

\* the body of the try block of router.post('/execute'), up to the insert
ExecutePlan(action, params, id, ts, dur) ==
    IF Falsy(action) THEN MissingAction
    ELSE IF Falsy(params) \/ params.t \notin {"obj", "arr"} THEN MissingParams
    ELSE PolicyStep(LookupAction(ActionName(action)), action, params, id, ts, dur)

\* database.run(INSERT ...); database.saveToDisk(); return the response,
\* and the catch block when the insert throws
RunPlan(plan, threw, dbNow, memNow, diskNow) ==
    IF ~plan.insert
    THEN [code |-> plan.code, body |-> plan.body, simulated |-> plan.simulated,
          appended |-> 0, insertThrew |-> FALSE, drewId |-> FALSE,
          mem |-> memNow, disk |-> diskNow]
    ELSE IF threw
    THEN [code |-> 500, body |-> InternalError(InsertError(dbNow, memNow), 0).body,
          simulated |-> plan.simulated,
          appended |-> 0, insertThrew |-> TRUE, drewId |-> TRUE,
          mem |-> memNow, disk |-> diskNow]
    ELSE [code |-> plan.code, body |-> plan.body, simulated |-> plan.simulated,
          appended |-> Len(InsertAction(memNow, plan.row).actions) - Len(memNow.actions),
          insertThrew |-> FALSE, drewId |-> TRUE,
          mem |-> InsertAction(memNow, plan.row),
          disk |-> saveToDisk(dbNow, InsertAction(memNow, plan.row), diskNow)]

\* the plan, and whether its insert throws
CheckPlan(plan, dbNow, memNow, diskNow) ==
    RunPlan(plan, plan.insert /\ InsertThrows(dbNow, memNow, plan.row), dbNow, memNow, diskNow)

\* router.post('/execute'): the response and the database and file after it
Execute(action, params, id, ts, dur, dbNow, memNow, diskNow) ==
    CheckPlan(ExecutePlan(action, params, id, ts, dur), dbNow, memNow, diskNow)

\* ------------------------------------------------------------------------
\* remediation-executor: GET /history
\* ------------------------------------------------------------------------

DefaultLimit == 50

MinLimit == 1

MaxLimit == 200

IsDigit(a) == \E d \in 1..10 : Digit[d] = a

\* the longest prefix of digits
DigitPrefix(s) ==
    SubSeq(s, 1, Cardinality({i \in 1..Len(s) : \A j \in 1..i : IsDigit(s[j])}))

\* parseInt(v, 10): nan, or the integer the leading sign and digits denote
parseInt(v) ==
    LET neg == v.t = "str" /\ v.s # <<>> /\ Head(v.s) = "-"
        digits == IF v.t # "str" THEN <<>>
                  ELSE DigitPrefix(IF neg THEN Tail(v.s) ELSE v.s)
    IN  IF digits = <<>> THEN [nan |-> TRUE, n |-> 0]
        ELSE [nan |-> FALSE, n |-> IF neg THEN -ParseDigits(digits) ELSE ParseDigits(digits)]

\* Math.min(Math.max(parseInt(req.query.limit, 10) || 50, 1), 200)
HistoryLimit(v) ==
    LET p == parseInt(v)
        n == IF p.nan \/ p.n = 0 THEN DefaultLimit ELSE p.n
        lo == IF n < MinLimit THEN MinLimit ELSE n
    IN  IF lo > MaxLimit THEN MaxLimit ELSE lo

ValidStatuses == {"success", "rejected", "error"}

\* rows.map(r => ({ ...r, params: JSON.parse(r.params), result: JSON.parse(r.result) }))
ParseRow(r) == [r EXCEPT !.params = JsonParse(r.params), !.result = JsonParse(r.result)]

\* a variant of SelectActions whose status filter keeps the other rows
SelectActionsOthers(memNow, status, limit, tie) ==
    LET hits == IF Falsy(status) THEN memNow.actions
                ELSE SelectSeq(memNow.actions, LAMBDA r : <<r.status>> # status.s)
    IN  Limit(OrderByTimestampDesc(hits, tie), limit)

\* SELECT * FROM actions WHERE 1=1 [AND status = $status]
\*   ORDER BY timestamp DESC LIMIT $limit
SelectActions(memNow, status, limit, tie) ==
    LET hits == IF Falsy(status) THEN memNow.actions
                ELSE SelectSeq(memNow.actions, LAMBDA r : <<r.status>> = status.s)
    IN  Limit(OrderByTimestampDesc(hits, tie), limit)

\* res.json({ success: true, count: rows.length, data: rows.map(...) })
HistoryFound(rows) ==
    [code |-> 200,
     body |-> Obj(<< <<"success", Bool(TRUE)>>, <<"count", Num(Len(rows))>> >>),
     data |-> [i \in 1..Len(rows) |-> ParseRow(rows[i])]]

\* a handler that checks the status and then selects without it
HistoryUnfiltered(status, limit, dbNow, memNow, tie) ==
    IF ~Falsy(status) /\ (status.t # "str" \/ Len(status.s) # 1 \/ status.s[1] \notin ValidStatuses)
    THEN [code |-> 400,
          body |-> Obj(<< <<"success", Bool(FALSE)>>,
                          <<"error", Str(<<"Invalid status. Must be: success, rejected, error">>)>> >>),
          data |-> <<>>]
    ELSE IF QueryThrows(dbNow, memNow)
    THEN [code |-> 500,
          body |-> Obj(<< <<"success", Bool(FALSE)>>,
                          <<"error", Str(<<"Failed to fetch history">>)>> >>),
          data |-> <<>>]
    ELSE HistoryFound(SelectActions(memNow, Undef, HistoryLimit(limit), tie))

\* router.get('/history'): the response
History(status, limit, dbNow, memNow, tie) ==
    IF ~Falsy(status) /\ (status.t # "str" \/ Len(status.s) # 1 \/ status.s[1] \notin ValidStatuses)
    THEN [code |-> 400,
          body |-> Obj(<< <<"success", Bool(FALSE)>>,
                          <<"error", Str(<<"Invalid status. Must be: success, rejected, error">>)>> >>),
          data |-> <<>>]
    ELSE IF QueryThrows(dbNow, memNow)
    THEN [code |-> 500,
          body |-> Obj(<< <<"success", Bool(FALSE)>>,
                          <<"error", Str(<<"Failed to fetch history">>)>> >>),
          data |-> <<>>]
    ELSE HistoryFound(SelectActions(memNow, status, HistoryLimit(limit), tie))

\* ------------------------------------------------------------------------
\* The REST server
\* ------------------------------------------------------------------------

\* no execute_remediation call was made yet
NoCall ==
    [action |-> Undef, params |-> Undef, success |-> FALSE, text |-> <<>>,
     outcome |-> "none", simulated |-> 0, inserted |-> 0, counted |-> 0, fetched |-> "none",
     args |-> Undef, reason |-> Undef]

\* The REST process either was started by startServer(), which awaits
\* getDatabase() before it listens, or the app was imported (as the tests
\* do) and the database opens on the first request.
RestInit ==
    /\ \/ /\ db = "null" /\ initPromise = "null" /\ saveTimer = FALSE
          /\ dbInit = [starting |-> 0, loads |-> 0, timers |-> 0]
       \/ /\ db = "open" /\ initPromise = "resolved" /\ saveTimer = TRUE
          /\ dbInit = [starting |-> 0, loads |-> 1, timers |-> 1]
    /\ mem = EmptyDatabase
    /\ disk = NoFile
    /\ tablesReady = FALSE
    /\ logsReady = FALSE
    /\ waiters = <<>>
    /\ microQ = <<>>
    /\ received = 0
    /\ last = NoRequest
    /\ acked = <<>>
    /\ now = 0
    /\ nextId = 0
    /\ tieOrder \in {"asc", "desc"}
    /\ closing = FALSE

\* no get_incident_history call was made yet
\*   limit     the limit of the query
\*   counted   remediationCounter, the number of calls answered success so far
NoHistory ==
    [called |-> FALSE, success |-> FALSE, history |-> <<>>, error |-> <<>>, limit |-> 0,
     counted |-> 0]

\* The MCP process after startMcpServer(): its database is open; no code
\* of the repository creates the executions table.
McpInit ==
    /\ executions = <<>>
    /\ remediationCounter = 0
    /\ mcpTables = {}
    /\ mcpCalls = 0
    /\ mcpLast = NoCall
    /\ mcpHistory = NoHistory
    /\ slackWebhook \in BOOLEAN

\* metrics-fetcher when the module is loaded
MetricsInit ==
    /\ metricsHistory = <<>>
    /\ anomalyMode = FALSE

\* no /mcp request was made yet
NoSessionRequest ==
    [kind |-> "none", sid |-> <<>>, method |-> "none", live |-> FALSE, routed |-> "none",
     transport |-> 0, code |-> 0]

\* the MCP server when the module is loaded: const sessions = new Map()
SessionInit ==
    /\ sessions = <<>>
    /\ transports = <<>>
    /\ sessionLast = NoSessionRequest

Init == RestInit /\ McpInit /\ MetricsInit /\ SessionInit /\ slackWebhook = FALSE

\* what the response acknowledges: the execution_id it carries, if any
Acknowledge(request, out) ==
    IF Get(out.body, "execution_id") = Undef THEN acked
    ELSE Append(acked, [id |-> Get(out.body, "execution_id").s, action |-> request.action,
                        code |-> out.code, simulated |-> out.simulated])

\* the uuids drawn before the handler runs: seedSampleLogs() draws one for
\* each entry
Drawn == IF ~logsReady /\ mem.logs = 0 THEN nextId + SeedCount ELSE nextId

\* POST /execute was handled with outcome `out`
Executes(request, out) ==
    /\ last' = [request EXCEPT
                    !.code = out.code, !.body = out.body,
                    !.simulated = out.simulated, !.appended = out.appended,
                    !.insertThrew = out.insertThrew]
    /\ acked' = Acknowledge(request, out)
    /\ mem' = out.mem
    /\ disk' = out.disk
    /\ nextId' = IF out.drewId THEN Drawn + 1 ELSE Drawn

\* the request repeats the query of the GET /history answered just before
Repeats(request) ==
    /\ last.kind = "history"
    /\ last.status = request.status
    /\ last.limit = request.limit

\* the response `out` is the one the request answered just before was given
SameResponse(out) == out.code = last.code /\ out.body = last.body /\ out.data = last.data

\* a handler of GET /history that removes the rows it has read
QueriesDraining(request, out, memNow, diskNow) ==
    /\ last' = [request EXCEPT !.code = out.code, !.body = out.body, !.data = out.data,
                               !.repeated = Repeats(request),
                               !.same = Repeats(request) => SameResponse(out)]
    /\ mem' = [memNow EXCEPT !.actions = <<>>]
    /\ disk' = diskNow
    /\ nextId' = Drawn
    /\ UNCHANGED acked

\* GET /history was handled with outcome `out`
Queries(request, out, memNow, diskNow) ==
    /\ last' = [request EXCEPT !.code = out.code, !.body = out.body, !.data = out.data,
                               !.repeated = Repeats(request),
                               !.same = Repeats(request) => SameResponse(out)]
    /\ mem' = memNow
    /\ disk' = diskNow
    /\ nextId' = Drawn
    /\ UNCHANGED acked

\* GET /actions, GET /logs or POST /logs was handled with outcome `out`
Answers(request, out) ==
    /\ last' = [request EXCEPT !.code = out.code, !.body = out.body, !.data = out.data,
                               !.appended = out.appended]
    /\ mem' = out.mem
    /\ disk' = out.disk
    /\ nextId' = Drawn + out.appended
    /\ UNCHANGED acked

\* a listing that leaves the required parameters out
ListActionsNamesOnly(memNow, diskNow) ==
    [code |-> 200,
     body |-> Obj(<< <<"success", Bool(TRUE)>> >>),
     data |-> [i \in 1..Len(ALLOWED_ACTIONS) |->
                  [name |-> ALLOWED_ACTIONS[i], required_params |-> <<>>]],
     appended |-> 0, mem |-> memNow, disk |-> diskNow]

\* router.get('/actions'): the response
ListActions(memNow, diskNow) ==
    [code |-> 200,
     body |-> Obj(<< <<"success", Bool(TRUE)>> >>),
     data |-> [i \in 1..Len(ALLOWED_ACTIONS) |->
                  [name |-> ALLOWED_ACTIONS[i],
                   required_params |-> required_params(ALLOWED_ACTIONS[i])]],
     appended |-> 0, mem |-> memNow, disk |-> diskNow]

ValidLevels == {"info", "warn", "error", "debug", "fatal"}

\* validLevels.includes(level)
IsValidLevel(level) == level.t = "str" /\ Len(level.s) = 1 /\ level.s[1] \in ValidLevels

\* a response of logs-db that changes nothing
LogsRespond(code, success, rows, memNow, diskNow) ==
    [code |-> code, body |-> Obj(<< <<"success", Bool(success)>>, <<"count", Num(rows)>> >>),
     data |-> <<>>, appended |-> 0, mem |-> memNow, disk |-> diskNow]

\* router.get('/logs') without service, search, limit and offset: the
\* response, of which the model keeps the number of rows
QueryLogs(level, dbNow, memNow, diskNow) ==
    IF ~Falsy(level) /\ ~IsValidLevel(level) THEN LogsRespond(400, FALSE, 0, memNow, diskNow)
    ELSE IF LogsThrows(dbNow, memNow) THEN LogsRespond(500, FALSE, 0, memNow, diskNow)
    ELSE LogsRespond(200, TRUE,
                     IF memNow.logs < DefaultLimit THEN memNow.logs ELSE DefaultLimit,
                     memNow, diskNow)

\* database.run(INSERT INTO logs ...)
InsertLog(memNow, id) == [memNow EXCEPT !.logs = @ + 1, !.logIds = Append(@, id)]

\* router.post('/logs') after the insert and saveToDisk(): console.log
\* calls message.substring(0, 80), which throws for a message that is no
\* string, and the catch block answers 500; otherwise the answer is 201
\* with the row
Inserted(body, id, dbNow, memNow, diskNow) ==
    [code |-> IF Get(body, "message").t = "str" THEN 201 ELSE 500,
     body |-> IF Get(body, "message").t = "str"
              THEN Obj(<< <<"success", Bool(TRUE)>>, <<"id", Str(id)>> >>)
              ELSE Obj(<< <<"success", Bool(FALSE)>>,
                          <<"error", Str(<<"Failed to insert log">>)>> >>),
     data |-> <<>>, appended |-> 1,
     mem |-> InsertLog(memNow, id),
     disk |-> saveToDisk(dbNow, InsertLog(memNow, id), diskNow)]

\* router.post('/logs'): the response and the database and file after it
PostLog(body, id, dbNow, memNow, diskNow) ==
    IF Falsy(Get(body, "level")) \/ Falsy(Get(body, "service")) \/ Falsy(Get(body, "message"))
    THEN LogsRespond(400, FALSE, 0, memNow, diskNow)
    ELSE IF ~IsValidLevel(Get(body, "level")) THEN LogsRespond(400, FALSE, 0, memNow, diskNow)
    ELSE IF LogsThrows(dbNow, memNow) THEN LogsRespond(500, FALSE, 0, memNow, diskNow)
    ELSE Inserted(body, id, dbNow, memNow, diskNow)

\* The route handler runs for `request` on database memNow and file
\* diskNow. It is synchronous and takes less than a clock tick.
Handle(request, memNow, diskNow) ==
    CASE request.kind = "execute" ->
            Executes(request, Execute(request.action, request.params, uuidv4(Drawn),
                                      toISOString(now), 0, db, memNow, diskNow))
      [] request.kind = "history" ->
            Queries(request, History(request.status, request.limit, db, memNow, tieOrder),
                    memNow, diskNow)
      [] request.kind = "actions" -> Answers(request, ListActions(memNow, diskNow))
      [] request.kind = "logs" -> Answers(request, QueryLogs(request.log, db, memNow, diskNow))
      [] request.kind = "postlog" -> Answers(request, PostLog(request.log, uuidv4(Drawn), db, memNow, diskNow))

\* the router that handles the request; logs-db is mounted before
\* remediation-executor, so its middleware runs for the requests of both
Route(request) == IF request.kind \in {"logs", "postlog"} THEN "logs" ELSE "remediation"

\* every ensureTables() on the way of the request returns at once
Ready(request) == logsReady /\ (Route(request) = "logs" \/ tablesReady)

\* the ensureTables() of logs-db returns at once for the request: the flag
\* is set and the request did not pass the flag before it was set
LogsInitDone(request) == logsReady /\ ~request.inLogsInit

\* the database after the ensureTables() calls on the way of the request
Prepared(request, memNow) ==
    IF Route(request) = "logs" \/ tablesReady
    THEN (IF LogsInitDone(request) THEN memNow ELSE EnsureLogsTable(memNow))
    ELSE CreateActionsTable(IF LogsInitDone(request) THEN memNow ELSE EnsureLogsTable(memNow))

\* the file after them: seedSampleLogs() ends with saveToDisk()
PreparedDisk(request, memNow, diskNow) ==
    IF ~logsReady /\ memNow.logs = 0
    THEN saveToDisk(db, EnsureLogsTable(memNow), diskNow)
    ELSE diskNow

\* the requests that count against MaxReq: those that may write
Counted(request) == request.kind \in {"execute", "postlog"}

\* A request reaches the routers with the tables ready: ensureTables()
\* returns at once and the handler runs. A read served this way changes
\* nothing and is not counted against MaxReq.
Receive(request) ==
    /\ Counted(request) => received < MaxReq
    /\ microQ = <<>>
    /\ Ready(request)
    /\ received' = IF Counted(request) THEN received + 1 ELSE received
    /\ Handle(request, mem, disk)
    /\ UNCHANGED <<db, initPromise, saveTimer, tablesReady, logsReady, waiters, microQ, now,
                   tieOrder, closing>>
    /\ UNCHANGED <<mcpVars, metricsVars, libVars, sessionVars>>

\* A request reaches the routers before their tables are ready and the
\* database is open: getDatabase() returns db, the tables are created and
\* the handler runs.
ReceiveCreate(request) ==
    /\ received < MaxReq
    /\ microQ = <<>>
    /\ ~Ready(request)
    /\ db = "open"
    /\ received' = received + 1
    /\ logsReady' = TRUE
    /\ tablesReady' = (tablesReady \/ Route(request) = "remediation")
    /\ Handle(request, Prepared(request, mem), PreparedDisk(request, mem, disk))
    /\ UNCHANGED <<db, initPromise, saveTimer, waiters, microQ, now, tieOrder, closing>>
    /\ UNCHANGED <<mcpVars, metricsVars, libVars, sessionVars>>

\* a getDatabase() that starts an initialization whenever db is not set
getDatabaseUnguarded(dbNow, promiseNow) == IF dbNow = "open" THEN "db" ELSE "started"

\* getDatabase(): if (db) return db; if (initPromise) return initPromise;
\* otherwise it starts the initialization
getDatabase(dbNow, promiseNow) ==
    IF dbNow = "open" THEN "db"
    ELSE IF promiseNow # "null" THEN "joined"
    ELSE "started"

\* A request reaches the routers before the database is open: getDatabase()
\* starts the initialization, or joins the one that is pending.
ReceiveAwait(request) ==
    /\ received < MaxReq
    /\ microQ = <<>>
    /\ ~Ready(request)
    /\ db = "null"
    /\ received' = received + 1
    /\ initPromise' = "pending"
    /\ dbInit' = IF getDatabase(db, initPromise) = "started"
                 THEN [dbInit EXCEPT !.starting = @ + 1]
                 ELSE dbInit
    /\ waiters' = Append(waiters, [request EXCEPT !.inLogsInit = ~logsReady])
    /\ UNCHANGED <<db, saveTimer, mem, disk, tablesReady, logsReady, microQ, last, acked, now,
                   nextId, tieOrder, closing>>
    /\ UNCHANGED <<mcpVars, metricsVars, sessionVars>>

\* getDatabase(): the initialization completes: the file is loaded if it
\* exists, the autosave timer starts, and every awaiting request is resumed.
InitDatabase ==
    /\ initPromise = "pending"
    /\ microQ = <<>>
    /\ db' = "open"
    /\ mem' = IF disk.exists THEN disk.data ELSE EmptyDatabase
    /\ saveTimer' = TRUE
    /\ initPromise' = "resolved"
    /\ dbInit' = [starting |-> 0, loads |-> dbInit.loads + dbInit.starting,
                  timers |-> dbInit.timers + dbInit.starting]
    /\ microQ' = [i \in 1..Len(waiters) |-> [waiters[i] EXCEPT !.queued = Len(waiters)]]
    /\ waiters' = <<>>
    /\ UNCHANGED <<disk, tablesReady, logsReady, received, last, acked, now, nextId, tieOrder,
                   closing>>
    /\ UNCHANGED <<mcpVars, metricsVars, sessionVars>>

\* ensureTables() resumes after its await: the tables are created, the
\* flags are set and the handler runs.
Resume ==
    /\ microQ # <<>>
    /\ microQ' = Tail(microQ)
    /\ logsReady' = TRUE
    /\ tablesReady' = (tablesReady \/ Route(Head(microQ)) = "remediation")
    /\ Handle(Head(microQ), Prepared(Head(microQ), mem), PreparedDisk(Head(microQ), mem, disk))
    /\ UNCHANGED <<db, initPromise, saveTimer, waiters, received, now, tieOrder, closing>>
    /\ UNCHANGED <<mcpVars, metricsVars, libVars, sessionVars>>

MAX_HISTORY == 100

\* the values randomBetween(78, 99, 1) and randomBetween(15, 75, 1) return,
\* by the ends of the ranges
CpuValues(mode) == IF mode THEN {78, 99} ELSE {15, 75}

\* generateMetrics(): of the snapshot the model keeps the id, the mode and
\* cpu_percent
generateMetrics(id, mode, cpu) == [id |-> id, anomaly_mode |-> mode, cpu_percent |-> cpu]

\* metricsHistory.push(metrics); if (metricsHistory.length > MAX_HISTORY) metricsHistory.shift()
PushMetrics(history, metrics) ==
    IF Len(history) + 1 > MAX_HISTORY THEN Tail(Append(history, metrics))
    ELSE Append(history, metrics)

\* GET /metrics: metrics-fetcher is mounted first and has no middleware; it
\* keeps its snapshots in memory and touches neither the database nor the
\* registry. The request counts against MaxReq.
ReceiveMetrics ==
    /\ received < MaxReq
    /\ microQ = <<>>
    /\ received' = received + 1
    /\ \E cpu \in CpuValues(anomalyMode) :
          /\ metricsHistory' =
                PushMetrics(metricsHistory, generateMetrics(uuidv4(nextId), anomalyMode, cpu))
          /\ last' = [MetricsRequest EXCEPT
                         !.code = 200, !.body = Obj(<< <<"success", Bool(TRUE)>> >>),
                         !.data = <<generateMetrics(uuidv4(nextId), anomalyMode, cpu)>>]
    /\ nextId' = nextId + 1
    /\ UNCHANGED <<db, initPromise, saveTimer, mem, disk, tablesReady, logsReady, waiters,
                   microQ, acked, now, tieOrder, closing, anomalyMode>>
    /\ UNCHANGED <<mcpVars, libVars, sessionVars>>

\* req.query.limit of GET /metrics/history
MetricsLimitInputs ==
    {Undef, Str(<<"0">>), Str(<<"1">>), Str(<<"2">>), Str(<<"-", "3">>),
     Str(<<"1", "0", "1">>), Str(<<"a", "b", "c">>)}

\* Math.min(Math.max(parseInt(req.query.limit, 10) || 10, 1), MAX_HISTORY)
MetricsLimit(v) ==
    LET p == parseInt(v)
        n == IF p.nan \/ p.n = 0 THEN 10 ELSE p.n
        lo == IF n < 1 THEN 1 ELSE n
    IN  IF lo > MAX_HISTORY THEN MAX_HISTORY ELSE lo

\* metricsHistory.slice(-limit)
SliceLast(history, limit) ==
    IF Len(history) <= limit THEN history
    ELSE SubSeq(history, Len(history) - limit + 1, Len(history))

\* GET /metrics/history
ReceiveMetricsHistory(limit) ==
    /\ microQ = <<>>
    /\ last' = [NoRequest EXCEPT
                   !.kind = "metricshistory", !.limit = limit, !.code = 200,
                   !.body = Obj(<< <<"success", Bool(TRUE)>>,
                                   <<"count", Num(Len(SliceLast(metricsHistory,
                                                                MetricsLimit(limit))))>> >>),
                   !.data = SliceLast(metricsHistory, MetricsLimit(limit))]
    /\ UNCHANGED <<db, initPromise, saveTimer, mem, disk, tablesReady, logsReady, waiters,
                   microQ, received, acked, now, nextId, tieOrder, closing>>
    /\ UNCHANGED <<mcpVars, metricsVars, libVars, sessionVars>>

\* req.body of POST /metrics/anomaly
AnomalyInputs ==
    {Obj(<< <<"enabled", Bool(TRUE)>> >>), Obj(<< <<"enabled", Bool(FALSE)>> >>),
     Obj(<< <<"enabled", Str(<<"yes">>)>> >>), Obj(<< <<"enabled", Num(1)>> >>), Obj(<<>>)}

\* a handler that takes !!enabled for the mode
ReceiveAnomalyCoerced(body) ==
    /\ received < MaxReq
    /\ microQ = <<>>
    /\ received' = received + 1
    /\ anomalyMode' = ~Falsy(Get(body, "enabled"))
    /\ last' = [NoRequest EXCEPT
                   !.kind = "anomaly", !.params = body, !.code = 200,
                   !.body = Obj(<< <<"success", Bool(TRUE)>>,
                                   <<"anomaly_mode", Bool(~Falsy(Get(body, "enabled")))>> >>)]
    /\ UNCHANGED <<db, initPromise, saveTimer, mem, disk, tablesReady, logsReady, waiters,
                   microQ, acked, now, nextId, tieOrder, closing, metricsHistory>>
    /\ UNCHANGED <<mcpVars, libVars, sessionVars>>

\* POST /metrics/anomaly. The request counts against MaxReq.
ReceiveAnomaly(body) ==
    /\ received < MaxReq
    /\ microQ = <<>>
    /\ received' = received + 1
    /\ anomalyMode' = IF Get(body, "enabled").t = "bool" THEN Get(body, "enabled").n = 1
                      ELSE anomalyMode
    /\ last' = IF Get(body, "enabled").t = "bool"
               THEN [NoRequest EXCEPT
                        !.kind = "anomaly", !.params = body, !.code = 200,
                        !.body = Obj(<< <<"success", Bool(TRUE)>>,
                                        <<"anomaly_mode", Get(body, "enabled")>> >>)]
               ELSE [NoRequest EXCEPT
                        !.kind = "anomaly", !.params = body, !.code = 400,
                        !.body = Obj(<< <<"success", Bool(FALSE)>>,
                                        <<"error", Str(<<"\"enabled\" must be a boolean">>)>> >>)]
    /\ UNCHANGED <<db, initPromise, saveTimer, mem, disk, tablesReady, logsReady, waiters,
                   microQ, acked, now, nextId, tieOrder, closing, metricsHistory>>
    /\ UNCHANGED <<mcpVars, libVars, sessionVars>>

\* the autosave interval fires
Autosave ==
    /\ saveTimer
    /\ microQ = <<>>
    /\ disk # saveToDisk(db, mem, disk)
    /\ disk' = saveToDisk(db, mem, disk)
    /\ UNCHANGED <<db, initPromise, saveTimer, mem, tablesReady, logsReady, waiters, microQ,
                   received, last, acked, now, nextId, tieOrder, closing>>
    /\ UNCHANGED <<mcpVars, metricsVars, libVars, sessionVars>>

\* the wall clock advances
Tick ==
    /\ now < MaxClock
    /\ microQ = <<>>
    /\ now' = now + 1
    /\ UNCHANGED <<db, initPromise, saveTimer, mem, disk, tablesReady, logsReady, waiters,
                   microQ, received, last, acked, nextId, tieOrder, closing>>
    /\ UNCHANGED <<mcpVars, metricsVars, libVars, sessionVars>>

\* SIGINT or SIGTERM: shutdown() calls database.close(); requests on the
\* connections that are still open keep being served until the process exits
Shutdown ==
    /\ ~closing
    /\ microQ = <<>>
    /\ closing' = TRUE
    /\ saveTimer' = FALSE
    /\ dbInit' = IF saveTimer THEN [dbInit EXCEPT !.timers = @ - 1] ELSE dbInit
    /\ disk' = saveToDisk(db, mem, disk)
    /\ db' = "null"
    /\ initPromise' = IF db = "open" THEN "null" ELSE initPromise
    /\ mem' = IF db = "open" THEN EmptyDatabase ELSE mem
    /\ UNCHANGED <<tablesReady, logsReady, waiters, microQ, received, last, acked, now, nextId,
                   tieOrder>>
    /\ UNCHANGED <<mcpVars, metricsVars, sessionVars>>

Next ==
    \/ \E request \in Requests : Receive(request)
    \/ \E request \in Requests : ReceiveCreate(request)
    \/ \E request \in Requests : ReceiveAwait(request)
    \/ InitDatabase
    \/ Resume
    \/ ReceiveMetrics
    \/ Autosave
    \/ Tick

Spec == Init /\ [][Next]_vars

\* the requests to the routers that use the database, and the shutdown;
\* GET /metrics uses no database and is left to Spec and SpecMetrics
NextShutdown ==
    \/ \E request \in Requests : Receive(request)
    \/ \E request \in Requests : ReceiveCreate(request)
    \/ \E request \in Requests : ReceiveAwait(request)
    \/ InitDatabase
    \/ Resume
    \/ Autosave
    \/ Tick
    \/ Shutdown

\* The server started by startServer() is sent POST /execute requests that
\* are recorded and every query of GET /history.
HistoryRequests ==
    {ExecuteRequest(Str(<<"scale_pods">>), ScaleParams),
     ExecuteRequest(Str(<<"delete_all">>), ScaleParams)}
        \cup {HistoryRequest(s, l) : s \in StatusInputs, l \in LimitInputs}

InitHistory == Init /\ db = "open"

NextHistory ==
    \/ \E request \in HistoryRequests : Receive(request)
    \/ \E request \in HistoryRequests : ReceiveCreate(request)
    \/ Tick

SpecHistory == InitHistory /\ [][NextHistory]_vars

\* a params object the notify_slack validator refuses twice
BadSlackParams == Obj(<< <<"channel", Str(<<"O", "p", "s">>)>>, <<"message", Num(7)>> >>)

\* The server started by startServer() is sent POST /execute requests in
\* which every required parameter is present: scale_pods with each replicas
\* around the allowed range, and parameters the validators refuse once or
\* twice.
ValidateInputs ==
    {<<Str(<<"scale_pods">>),
       Obj(<< <<"service", Str(<<"a", "p", "i">>)>>, <<"replicas", Num(n)>> >>)>> :
          n \in (MinReplicas - ReplicasMargin) .. (MaxReplicas + ReplicasMargin)}
        \cup {<<Str(<<"scale_pods">>), BadScaleParams>>,
              <<Str(<<"scale_pods">>),
                Obj(<< <<"service", Str(<<"A", "p", "i">>)>>, <<"replicas", Num(5)>> >>)>>,
              <<Str(<<"notify_slack">>), SlackParams>>,
              <<Str(<<"notify_slack">>), BadSlackParams>>,
              <<Str(<<"notify_slack">>),
                Obj(<< <<"channel", Str(<<"#", "o", "p", "s">>)>>, <<"message", Num(7)>> >>)>>}

ValidateRequests == {ExecuteRequest(e[1], e[2]) : e \in ValidateInputs}

InitValidate == Init /\ db = "open" /\ tieOrder = "asc"

NextValidate ==
    \/ \E request \in ValidateRequests : Receive(request)
    \/ \E request \in ValidateRequests : ReceiveCreate(request)

SpecValidate == InitValidate /\ [][NextValidate]_vars

\* metricsHistory after n GET /metrics requests in normal mode that drew
\* the lowest cpu_percent
FilledHistory(n) == [i \in 1..n |-> generateMetrics(uuidv4(i - 1), FALSE, 15)]

\* The server started by startServer() has served no, MAX_HISTORY - 1 or
\* MAX_HISTORY GET /metrics requests and nothing else; then it is sent
\* requests to the routes of metrics-fetcher.
InitMetrics ==
    /\ db = "open" /\ initPromise = "resolved" /\ saveTimer = TRUE
    /\ dbInit = [starting |-> 0, loads |-> 1, timers |-> 1]
    /\ mem = EmptyDatabase
    /\ disk = NoFile
    /\ tablesReady = FALSE
    /\ logsReady = FALSE
    /\ waiters = <<>>
    /\ microQ = <<>>
    /\ received = 0
    /\ last = NoRequest
    /\ acked = <<>>
    /\ now = 0
    /\ tieOrder = "asc"
    /\ closing = FALSE
    /\ McpInit
    /\ slackWebhook = FALSE
    /\ anomalyMode = FALSE
    /\ SessionInit
    /\ \E n \in {0, MAX_HISTORY - 1, MAX_HISTORY} :
          /\ metricsHistory = FilledHistory(n)
          /\ nextId = n

NextMetrics ==
    \/ ReceiveMetrics
    \/ \E limit \in MetricsLimitInputs : ReceiveMetricsHistory(limit)
    \/ \E body \in AnomalyInputs : ReceiveAnomaly(body)

SpecMetrics == InitMetrics /\ [][NextMetrics]_vars

SpecShutdown == Init /\ [][NextShutdown]_vars


\* ------------------------------------------------------------------------
\* The MCP server: execute_remediation
\* ------------------------------------------------------------------------

\* Object.keys(ALLOWED_ACTIONS) of mcp-server
McpAllowedActions ==
    <<"scale_pods", "restart_service", "notify_slack", "clear_cache",
      "rollback_deployment", "drain_node">>

McpIsOwnAction(action) == \E i \in 1..Len(McpAllowedActions) : McpAllowedActions[i] = action

\* ALLOWED_ACTIONS[action] of mcp-server
McpLookupAction(action) ==
    IF McpIsOwnAction(action) THEN "def"
    ELSE IF action \in ObjectPrototypeKeys THEN "inherited"
    ELSE "undefined"

\* actionDef.requiredParams
requiredParams(action) ==
    CASE action = "scale_pods" -> <<"service", "replicas">>
      [] action = "restart_service" -> <<"service">>
      [] action = "notify_slack" -> <<"channel", "message">>
      [] action = "clear_cache" -> <<"service">>
      [] action = "rollback_deployment" -> <<"service", "version">>
      [] action = "drain_node" -> <<"node">>

\* the first p of requiredParams with ap[p] === undefined, "" when none
McpFirstMissing(action, ap) ==
    LET req == requiredParams(action)
        miss == {i \in 1..Len(req) : Get(ap, req[i]) = Undef}
    IN  IF miss = {} THEN "" ELSE req[CHOOSE i \in miss : \A j \in miss : i <= j]

\* actionDef.validate(ap): the error, <<>> for null
McpValidate(action, ap) ==
    CASE action = "scale_pods" ->
            IF \/ Get(ap, "replicas").t # "num"
               \/ Get(ap, "replicas").n < MinReplicas
               \/ Get(ap, "replicas").n > MaxReplicas
            THEN <<"replicas must be a number between 1 and 20">> ELSE <<>>
      [] action = "rollback_deployment" ->
            IF Falsy(Get(ap, "version")) \/ Get(ap, "version").t # "str"
            THEN <<"version must be a valid version string (e.g. \"v1.2.3\")">> ELSE <<>>
      [] OTHER -> <<>>

\* the parameters actionDef.simulate(ap) puts into its template string
McpTemplateParams(action) ==
    CASE action = "scale_pods" -> <<"service", "replicas">>
      [] action = "restart_service" -> <<"service">>
      [] action = "notify_slack" -> <<"channel", "message">>
      [] action = "clear_cache" -> <<"service">>
      [] action = "rollback_deployment" -> <<"service", "version">>
      [] action = "drain_node" -> <<"node">>

\* actionDef.simulate(ap) throws: a template string cannot convert a value
McpSimulateThrows(action, ap) ==
    \E i \in 1..Len(McpTemplateParams(action)) :
        ToStringThrows(Get(ap, McpTemplateParams(action)[i]))

\* a sender that reports sent whatever fetch() did
sendSlackMessageOptimistic(webhook, fetched) ==
    IF ~webhook THEN [sent |-> FALSE, reason |-> <<"No SLACK_WEBHOOK_URL configured (simulated)">>]
    ELSE [sent |-> TRUE, reason |-> <<>>]

\* sendSlackMessage(): sent, or not sent with a reason; `fetched` is what
\* fetch() did: "ok" or "throws"
sendSlackMessage(webhook, fetched) ==
    IF ~webhook THEN [sent |-> FALSE, reason |-> <<"No SLACK_WEBHOOK_URL configured (simulated)">>]
    ELSE IF fetched = "ok" THEN [sent |-> TRUE, reason |-> <<>>]
    ELSE [sent |-> FALSE, reason |-> <<"fetch failed">>]

\* `${v}` for a value that converts
TemplateText(v) ==
    CASE v.t = "str" -> v.s
      [] v.t = "num" -> NumToString(v.n)
      [] v.t = "bool" -> IF v.n = 1 THEN <<"true">> ELSE <<"false">>
      [] v.t = "null" -> <<"null">>
      [] v.t = "undef" -> <<"undefined">>
      [] OTHER -> <<"[object Object]">>

\* actionDef.simulate(ap): the result text
McpSimulate(action, ap, webhook, fetched) ==
    CASE action = "scale_pods" ->
            <<"Scaled ">> \o TemplateText(Get(ap, "service")) \o <<" to ">>
            \o TemplateText(Get(ap, "replicas")) \o <<" replicas">>
      [] action = "restart_service" ->
            <<"Rolling restart initiated for: ">> \o TemplateText(Get(ap, "service"))
      [] action = "notify_slack" ->
            IF sendSlackMessage(webhook, fetched).sent
            THEN <<"Slack notification SENT to ">> \o TemplateText(Get(ap, "channel"))
                 \o <<": ">> \o TemplateText(Get(ap, "message"))
            ELSE <<"Notification simulated to ">> \o TemplateText(Get(ap, "channel"))
                 \o <<": ">> \o TemplateText(Get(ap, "message"))
                 \o <<" (">> \o sendSlackMessage(webhook, fetched).reason \o <<")">>
      [] action = "clear_cache" ->
            <<"Cache cleared for service: ">> \o TemplateText(Get(ap, "service"))
            \o <<". Memory freed.">>
      [] action = "rollback_deployment" ->
            <<"Rolled back ">> \o TemplateText(Get(ap, "service")) \o <<" to version ">>
            \o TemplateText(Get(ap, "version"))
      [] action = "drain_node" ->
            <<"Node ">> \o TemplateText(Get(ap, "node"))
            \o <<" drained. Pods rescheduled to healthy nodes.">>

\* database.run('INSERT INTO executions ...') throws
McpInsertThrows(tables) == "executions" \notin tables

\* the answer { success: false, error }
McpFailure(action, params, text) ==
    [action |-> action, params |-> params, success |-> FALSE, text |-> text,
     outcome |-> "failure", simulated |-> 0, inserted |-> 0, counted |-> 0, fetched |-> "none",
     args |-> Undef, reason |-> Undef]

\* the call rejects: an exception leaves handleRemediation
McpThrew(action, params, text, simulated) ==
    [action |-> action, params |-> params, success |-> FALSE, text |-> text,
     outcome |-> "threw", simulated |-> simulated, inserted |-> 0, counted |-> 0,
     fetched |-> "none", args |-> Undef, reason |-> Undef]

\* the effect ran: the counter is incremented, the insert is tried inside
\* try { } catch (e) { /* non-critical */ }, and the answer is success
McpSucceeded(action, params, result, tables) ==
    [action |-> action, params |-> params, success |-> TRUE, text |-> result,
     outcome |-> "success", simulated |-> 1,
     inserted |-> IF McpInsertThrows(tables) THEN 0 ELSE 1, counted |-> 1, fetched |-> "none",
     args |-> Undef, reason |-> Undef]

\* handleRemediation(action, params, reason): the answer
handleRemediation(action, params, tables, webhook, fetched) ==
    IF McpLookupAction(ActionName(action)) = "undefined"
    THEN McpFailure(action, params, <<"Action '">> \o action.s \o <<"' not allowed. Allowed: ">>
                                     \o McpAllowedActions)
    ELSE IF McpLookupAction(ActionName(action)) = "inherited"
    THEN McpThrew(action, params, <<"actionDef.requiredParams is not iterable">>, 0)
    ELSE IF McpFirstMissing(ActionName(action), params) # ""
    THEN McpFailure(action, params,
                    <<"Missing required parameter: ", McpFirstMissing(ActionName(action), params),
                      ". Required: ">> \o requiredParams(ActionName(action)))
    ELSE IF McpValidate(ActionName(action), params) # <<>>
    THEN McpFailure(action, params, McpValidate(ActionName(action), params))
    ELSE IF McpSimulateThrows(ActionName(action), params)
    THEN McpThrew(action, params, <<"Cannot convert object to primitive value">>, 1)
    ELSE McpSucceeded(action, params,
                      McpSimulate(ActionName(action), params, webhook, fetched), tables)

\* args.action of execute_remediation
McpActionInputs ==
    {Str(<<"scale_pods">>), Str(<<"restart_service">>), Str(<<"notify_slack">>),
     Str(<<"clear_cache">>), Str(<<"rollback_deployment">>), Str(<<"drain_node">>),
     Str(<<"delete_all">>), Str(<<"constructor">>)}

\* args.params of execute_remediation
McpParamsInputs ==
    {Obj(<<>>),
     Obj(<< <<"service", Str(<<"a", "p", "i">>)>>, <<"replicas", Num(5)>> >>),
     Obj(<< <<"service", Str(<<"a", "p", "i">>)>>, <<"replicas", Num(21)>> >>),
     Obj(<< <<"service", Str(<<"a", "p", "i">>)>>, <<"version", Str(<<"v", "1">>)>> >>),
     Obj(<< <<"service", Obj(<< <<"toString", Null>> >>)>>, <<"replicas", Num(5)>> >>),
     Obj(<< <<"service", Str(<<>>)>> >>),
     Obj(<< <<"node", Null>> >>),
     Obj(<< <<"channel", Str(<<"#", "o", "p", "s">>)>>, <<"message", Str(<<"h", "i">>)>> >>)}

\* the call reaches fetch(SLACK_WEBHOOK_URL, ...)
Fetches(action, params) ==
    /\ ActionName(action) = "notify_slack"
    /\ McpFirstMissing("notify_slack", params) = ""
    /\ ~ToStringThrows(Get(params, "message"))
    /\ slackWebhook

\* args of execute_remediation: the action under the key action, and the
\* formats the handler accepts from different LLMs: the name under name or
\* tool, as a top-level key or as a value, a reason, and no name at all
McpArgsInputs ==
    {Obj(<< <<"action", a>>, <<"params", p>> >>) : a \in McpActionInputs, p \in McpParamsInputs}
        \cup {Obj(<< <<"name", Str(<<"restart_service">>)>>,
                     <<"params", Obj(<< <<"service", Str(<<"a", "p", "i">>)>> >>)>> >>),
              Obj(<< <<"name", Str(<<"delete_all">>)>>,
                     <<"params", Obj(<< <<"service", Str(<<"a", "p", "i">>)>> >>)>> >>),
              Obj(<< <<"tool", Str(<<"delete_all">>)>> >>),
              Obj(<< <<"tool", Str(<<"constructor">>)>> >>),
              Obj(<< <<"action", Str(<<"clear_cache">>)>>,
                     <<"params", Obj(<< <<"service", Str(<<"a", "p", "i">>)>> >>)>>,
                     <<"reason", Str(<<"stale">>)>> >>),
              Obj(<< <<"restart_service", Obj(<< <<"service", Str(<<"a", "p", "i">>)>> >>)>> >>),
              Obj(<< <<"command", Str(<<"drain_node">>)>> >>),
              Obj(<< <<"command", Str(<<"delete_all">>)>> >>),
              Obj(<<>>)}

\* args.action || args.name || args.tool || undefined
ArgAction(args) ==
    OrElse(Get(args, "action"), OrElse(Get(args, "name"), OrElse(Get(args, "tool"), Undef)))

\* args.params || {}
ArgParams(args) == OrElse(Get(args, "params"), Obj(<<>>))

\* args.reason || args.description || 'Agent action'
ArgReason(args) ==
    OrElse(Get(args, "reason"), OrElse(Get(args, "description"), Str(<<"Agent action">>)))

\* args[a] !== undefined || Object.values(args).includes(a)
ArgNames(args, a) ==
    \/ Get(args, a) # Undef
    \/ \E i \in 1..Len(args.o) : args.o[i][2] = Str(<<a>>)

\* possibleActions.find(...): the first allowed action args names, "" for none
FoundAction(args) ==
    LET hits == {i \in 1..Len(McpAllowedActions) : ArgNames(args, McpAllowedActions[i])}
    IN  IF hits = {} THEN "" ELSE McpAllowedActions[CHOOSE i \in hits : \A j \in hits : i <= j]

\* the action handleRemediation is called with, Undef when it is not called
CalledAction(args) ==
    IF ~Falsy(ArgAction(args)) THEN ArgAction(args)
    ELSE IF FoundAction(args) # "" THEN Str(<<FoundAction(args)>>)
    ELSE Undef

\* the params handleRemediation is called with
CalledParams(args) ==
    IF Falsy(ArgAction(args)) /\ FoundAction(args) # ""
          /\ Get(args, FoundAction(args)).t \in {"obj", "arr", "null"}
    THEN Get(args, FoundAction(args))
    ELSE ArgParams(args)

\* the row handleRemediation inserts
ExecutionRow(action, ap, reason, result) ==
    [action |-> action, params |-> JsonStringify(ap), reason |-> reason,
     result |-> result, status |-> "completed"]

\* One execute_remediation call that names an action. The webhook call of
\* notify_slack is the only await that yields; the call touches no state
\* another call reads before it, so the call is one step.
McpExecute(args, fetched) ==
    /\ mcpCalls < MaxMcpCalls
    /\ CalledAction(args) # Undef
    /\ mcpCalls' = mcpCalls + 1
    /\ mcpLast' = [handleRemediation(CalledAction(args), OrElse(CalledParams(args), Obj(<<>>)),
                                     mcpTables, slackWebhook, fetched)
                      EXCEPT !.fetched = IF Fetches(CalledAction(args), CalledParams(args))
                                         THEN fetched ELSE "none",
                             !.args = args,
                             !.reason = ArgReason(args)]
    /\ remediationCounter' = remediationCounter + mcpLast'.counted
    /\ executions' = IF mcpLast'.inserted = 1
                     THEN Append(executions,
                                 ExecutionRow(mcpLast'.action, mcpLast'.params,
                                              mcpLast'.reason, mcpLast'.text))
                     ELSE executions
    /\ UNCHANGED <<mcpTables, mcpHistory, slackWebhook>>
    /\ UNCHANGED <<restVars, metricsVars, libVars, sessionVars>>

\* One execute_remediation call in which no action is found
McpActionUndefined(args) ==
    /\ mcpCalls < MaxMcpCalls
    /\ CalledAction(args) = Undef
    /\ mcpCalls' = mcpCalls + 1
    /\ mcpLast' = [McpFailure(Undef, ArgParams(args),
                              <<"Action is undefined. Please pass \"action\" parameter with one of: ">>
                                  \o McpAllowedActions)
                      EXCEPT !.args = args, !.reason = ArgReason(args)]
    /\ UNCHANGED <<executions, remediationCounter, mcpTables, mcpHistory, slackWebhook>>
    /\ UNCHANGED <<restVars, metricsVars, libVars, sessionVars>>

\* params.limit of get_incident_history
McpLimitInputs == {Undef, Num(1)}

\* parseInt(params.limit, 10) || 20
McpHistoryLimit(v) == IF v.t = "num" /\ v.n # 0 THEN v.n ELSE 20

\* SELECT * FROM executions ORDER BY timestamp DESC LIMIT ?, the newest row
\* first, and params parsed
SelectExecutions(rows, limit) ==
    [i \in 1..(IF Len(rows) < limit THEN Len(rows) ELSE limit) |->
        [rows[Len(rows) + 1 - i] EXCEPT !.params = JsonParse(@)]]

\* One get_incident_history call: the query throws when the table is missing
McpHistory(limit) ==
    /\ mcpHistory' =
          IF "executions" \notin mcpTables
          THEN [called |-> TRUE, success |-> FALSE, history |-> <<>>,
                error |-> <<"no such table: executions">>, limit |-> McpHistoryLimit(limit),
                counted |-> remediationCounter]
          ELSE [called |-> TRUE, success |-> TRUE,
                history |-> SelectExecutions(executions, McpHistoryLimit(limit)),
                error |-> <<>>, limit |-> McpHistoryLimit(limit),
                counted |-> remediationCounter]
    /\ UNCHANGED <<executions, remediationCounter, mcpTables, mcpCalls, mcpLast, slackWebhook>>
    /\ UNCHANGED <<restVars, metricsVars, libVars, sessionVars>>

McpNext ==
    \/ \E args \in McpArgsInputs, fetched \in {"ok", "throws"} : McpExecute(args, fetched)
    \/ \E args \in McpArgsInputs : McpActionUndefined(args)
    \/ \E limit \in McpLimitInputs : McpHistory(limit)

\* the MCP process alone: the REST process does not run
InitMcp == RestInit /\ McpInit /\ MetricsInit /\ SessionInit /\ db = "null" /\ tieOrder = "asc"

SpecMcp == InitMcp /\ [][McpNext]_vars

\* ------------------------------------------------------------------------
\* The MCP server: sessions
\* ------------------------------------------------------------------------

MaxSessions == 2

\* sessions.has(sid)
HasSession(map, sid) == \E i \in 1..Len(map) : map[i].id = sid

\* sessions.get(sid): the transport of the entry
GetSession(map, sid) == (CHOOSE i \in 1..Len(map) : map[i].id = sid)

\* sessions.set(sid, session): the entry of the key is replaced, or a new
\* entry is added
SetSession(map, sid, t) ==
    IF HasSession(map, sid)
    THEN [i \in 1..Len(map) |-> IF map[i].id = sid THEN [id |-> sid, transport |-> t]
                                ELSE map[i]]
    ELSE Append(map, [id |-> sid, transport |-> t])

\* sessions.delete(sid)
DeleteSession(map, sid) == SelectSeq(map, LAMBDA e : e.id # sid)

\* the session id was issued by this server and its session was neither
\* closed nor deleted
Live(sid) ==
    /\ sid # <<>>
    /\ \E t \in 1..Len(transports) :
          /\ transports[t].sessionId = sid
          /\ transports[t].stage \in {"handling", "stored"}

\* the mcp-session-id header of a request: none, an id no session has, or the
\* id a transport of this server generated; the transport sends the id with
\* the response to initialize, during handleRequest
SessionIdInputs ==
    {<<>>, <<"stale">>} \cup
    {transports[t].sessionId : t \in {u \in 1..Len(transports) : transports[u].sessionId # <<>>}}

\* app.post('/mcp') up to its await of handleRequest: a request with the id
\* of a session in the map is routed to its transport; any other request
\* gets a new transport from createSession(), which generates a session id
\* when the request is initialize and answers 400 otherwise
PostMcp(sid, method) ==
    /\ ~(sid # <<>> /\ HasSession(sessions, sid)) => Len(transports) < MaxSessions
    /\ IF sid # <<>> /\ HasSession(sessions, sid)
       THEN /\ sessionLast' = [kind |-> "post", sid |-> sid, method |-> method,
                               live |-> Live(sid), routed |-> "existing",
                               transport |-> sessions[GetSession(sessions, sid)].transport,
                               code |-> 200]
            /\ UNCHANGED <<sessions, transports>>
       ELSE /\ transports' = Append(transports,
                                    [sessionId |-> IF method = "initialize"
                                                   THEN uuidv4(Len(transports))
                                                   ELSE <<>>,
                                     stage |-> "handling"])
            /\ sessionLast' = [kind |-> "post", sid |-> sid, method |-> method,
                               live |-> Live(sid), routed |-> "created",
                               transport |-> Len(transports) + 1,
                               code |-> IF method = "initialize" THEN 200 ELSE 400]
            /\ UNCHANGED sessions
    /\ UNCHANGED <<restVars, mcpVars, metricsVars, libVars>>

\* app.post('/mcp') after its await of handleRequest: the session is stored
\* under the id the transport has now, and onclose is set; a transport
\* without an id is not stored
PostMcpStore(t) ==
    /\ t \in 1..Len(transports)
    /\ transports[t].stage = "handling"
    /\ IF transports[t].sessionId # <<>>
       THEN /\ sessions' = SetSession(sessions, transports[t].sessionId, t)
            /\ transports' = [transports EXCEPT ![t].stage = "stored"]
       ELSE /\ transports' = [transports EXCEPT ![t].stage = "dropped"]
            /\ UNCHANGED sessions
    /\ UNCHANGED sessionLast
    /\ UNCHANGED <<restVars, mcpVars, metricsVars, libVars>>

\* app.delete('/mcp')
DeleteMcp(sid) ==
    /\ IF sid # <<>> /\ HasSession(sessions, sid)
       THEN /\ sessions' = DeleteSession(sessions, sid)
            /\ transports' = [transports EXCEPT
                                 ![sessions[GetSession(sessions, sid)].transport].stage = "removed"]
            /\ sessionLast' = [NoSessionRequest EXCEPT
                                  !.kind = "delete", !.sid = sid, !.live = Live(sid),
                                  !.routed = "existing", !.code = 200]
       ELSE /\ sessionLast' = [NoSessionRequest EXCEPT
                                  !.kind = "delete", !.sid = sid, !.live = Live(sid),
                                  !.code = 404]
            /\ UNCHANGED <<sessions, transports>>
    /\ UNCHANGED <<restVars, mcpVars, metricsVars, libVars>>

\* session.transport.onclose of a stored session
TransportClose(t) ==
    /\ t \in 1..Len(transports)
    /\ transports[t].stage = "stored"
    /\ sessions' = DeleteSession(sessions, transports[t].sessionId)
    /\ transports' = [transports EXCEPT ![t].stage = "removed"]
    /\ UNCHANGED sessionLast
    /\ UNCHANGED <<restVars, mcpVars, metricsVars, libVars>>

NextSessions ==
    \/ \E sid \in SessionIdInputs, method \in {"initialize", "tools/call"} : PostMcp(sid, method)
    \/ \E t \in 1..MaxSessions : PostMcpStore(t)
    \/ \E sid \in SessionIdInputs : DeleteMcp(sid)
    \/ \E t \in 1..MaxSessions : TransportClose(t)

SpecSessions == InitMcp /\ [][NextSessions]_vars

\* ------------------------------------------------------------------------
\* Properties of POST /execute and GET /history
\* ------------------------------------------------------------------------

\* Object.keys(ALLOWED_ACTIONS) as the 403 body carries it
AllowedActionNames == Arr([i \in 1..Len(ALLOWED_ACTIONS) |-> Str(<<ALLOWED_ACTIONS[i]>>)])

\* the last record of the actions table
LastRow == mem.actions[Len(mem.actions)]

\* C1: POST /execute with an object params and a non-empty action name
\* that is not an own key of the registry (inherited names such as
\* 'constructor' included) answers 403 with the allowed action names,
\* calls no simulate, and appends exactly one record with status rejected
\* and the requested action.
C1_UnknownActionRejected ==
    (/\ last.kind = "execute"
     /\ last.params.t = "obj"
     /\ ~Falsy(last.action)
     /\ ~IsOwnAction(ActionName(last.action)))
    => /\ last.code = 403
       /\ Get(last.body, "allowed_actions") = AllowedActionNames
       /\ last.simulated = 0
       /\ last.appended = 1
       /\ mem.actions # <<>>
       /\ LastRow.status = "rejected"
       /\ LastRow.action = last.action

\* C1: the case that fails: the action 'constructor' was answered 500 and
\* no record was written
C1_InheritedNameAnswered ==
    /\ last.kind = "execute"
    /\ last.params.t = "obj"
    /\ last.action = Str(<<"constructor">>)
    /\ last.code = 500
    /\ last.appended = 0

\* C2 as stated: every POST /execute, whatever its outcome, adds exactly
\* one record to the actions table.
C2_EveryExecuteAppendsOne == last.kind = "execute" => last.appended = 1

\* C2 amended: a POST /execute answered 200 or 403 adds exactly one record,
\* one answered 400 or 500 adds none, and the table holds one record per
\* execution id the server handed out.
C2_AppendsOneWhenDecided ==
    /\ Len(mem.actions) = Len(acked)
    /\ last.kind = "execute" =>
          /\ last.code \in {200, 400, 403, 500}
          /\ last.code \in {200, 403} => last.appended = 1
          /\ last.code \in {400, 500} => last.appended = 0

\* C2: a request was answered 400 and left the one earlier record alone
C2_FailureLeftLogAlone ==
    /\ last.kind = "execute"
    /\ last.code = 400
    /\ last.appended = 0
    /\ Len(mem.actions) = 1

\* C3: POST /execute calls simulate only when the action is an own key of
\* the registry, no required parameter is missing and the validator
\* returned no error, and it calls it at most once.
C3_SimulateOnlyAfterGate ==
    last.kind = "execute" =>
        /\ last.simulated <= 1
        /\ last.simulated = 1 =>
              /\ IsOwnAction(ActionName(last.action))
              /\ \A i \in 1..Len(required_params(ActionName(last.action))) :
                    ~IsMissing(Get(last.params, required_params(ActionName(last.action))[i]))
              /\ validate(ActionName(last.action), last.params) = <<>>

\* C3: simulate ran once for a request that passed the gate
C3_SimulatedOnce == last.kind = "execute" /\ last.simulated = 1 /\ last.code = 200

\* the acknowledged executions with the id of row r
AckedFor(r) == {i \in 1..Len(acked) : acked[i].id = r.id}

\* C4: every record of the actions table: status rejected implies its
\* action is not in the registry and no simulate was called for it; status
\* success implies its action is in the registry, its required parameters
\* are present and its params pass the validator.
C4_RecordStatus ==
    \A k \in 1..Len(mem.actions) :
        LET r == mem.actions[k]
        IN  /\ r.status = "rejected" =>
                  /\ ~IsOwnAction(ActionName(r.action))
                  /\ AckedFor(r) # {}
                  /\ \A i \in AckedFor(r) : acked[i].simulated = 0
            /\ r.status = "success" =>
                  /\ IsOwnAction(ActionName(r.action))
                  /\ \A i \in 1..Len(required_params(ActionName(r.action))) :
                        ~IsMissing(Get(JsonParse(r.params), required_params(ActionName(r.action))[i]))
                  /\ validate(ActionName(r.action), JsonParse(r.params)) = <<>>

\* C4: the table holds a rejected record and a success record
C4_BothStatuses ==
    /\ \E k \in 1..Len(mem.actions) : mem.actions[k].status = "rejected"
    /\ \E k \in 1..Len(mem.actions) : mem.actions[k].status = "success"

\* C5: POST /execute for a registered action with a params object that
\* lacks a required key answers 400, calls no simulate and appends no
\* record.
C5_MissingParameterRefused ==
    (/\ last.kind = "execute"
     /\ last.params.t = "obj"
     /\ IsOwnAction(ActionName(last.action))
     /\ \E i \in 1..Len(required_params(ActionName(last.action))) :
           Get(last.params, required_params(ActionName(last.action))[i]) = Undef)
    => /\ last.code = 400
       /\ Get(last.body, "success") = Bool(FALSE)
       /\ last.simulated = 0
       /\ last.appended = 0

\* C5: scale_pods without replicas was refused after an earlier record
C5_RefusedWithLogKept ==
    /\ last.kind = "execute"
    /\ last.action = Str(<<"scale_pods">>)
    /\ last.params.t = "obj"
    /\ Get(last.params, "service") # Undef
    /\ Get(last.params, "replicas") = Undef
    /\ last.code = 400
    /\ Len(mem.actions) = 1

\* C6: when simulate throws for a registered action whose parameters
\* passed the checks, exactly one record with status error is appended.
C6_EffectFaultRecorded ==
    (/\ mcpLast.outcome = "threw"
     /\ mcpLast.simulated = 1
     /\ McpIsOwnAction(ActionName(mcpLast.action)))
    => /\ mcpLast.inserted = 1
       /\ executions # <<>>
       /\ executions[Len(executions)].status = "error"

\* C6: the case that fails: simulate threw on a parameter that has no
\* primitive value, and no record was written
C6_EffectFaultUnrecorded ==
    /\ mcpLast.outcome = "threw"
    /\ mcpLast.simulated = 1
    /\ ToStringThrows(Get(mcpLast.params, "service"))
    /\ mcpLast.inserted = 0
    /\ executions = <<>>

\* POST /execute finds nothing to refuse: params is an object, the action
\* is an own key of the registry, every required parameter is present and
\* the validator returns no error
PassesGate(action, params) ==
    /\ params.t = "obj"
    /\ IsOwnAction(ActionName(action))
    /\ \A i \in 1..Len(required_params(ActionName(action))) :
          ~IsMissing(Get(params, required_params(ActionName(action))[i]))
    /\ validate(ActionName(action), params) = <<>>

\* C7: POST /execute for a registered action with params that pass the
\* gate answers success with a generated execution_id and the effect
\* payload (for scale_pods, new_replicas is the requested replicas), and a
\* later GET /history?status=success whose limit covers the log holds a
\* record with each such id and its action.
C7_SuccessThenHistory ==
    /\ (last.kind = "execute" /\ PassesGate(last.action, last.params)) =>
          /\ last.code = 200
          /\ Get(last.body, "success") = Bool(TRUE)
          /\ Get(last.body, "execution_id").t = "str"
          /\ Get(last.body, "execution_id").s # <<>>
          /\ Get(last.body, "action") = last.action
          /\ Get(last.body, "result") = simulate(ActionName(last.action), last.params)
          /\ ActionName(last.action) = "scale_pods" =>
                Get(Get(last.body, "result"), "new_replicas") = Get(last.params, "replicas")
    /\ (/\ last.kind = "history"
        /\ last.status = Str(<<"success">>)
        /\ HistoryLimit(last.limit) >= Len(mem.actions)) =>
          /\ last.code = 200
          /\ \A i \in 1..Len(acked) :
                acked[i].code = 200 =>
                    \E k \in 1..Len(last.data) :
                        /\ last.data[k].id = acked[i].id
                        /\ last.data[k].action = acked[i].action
                        /\ last.data[k].status = "success"

\* C7: a scale_pods execution was answered 200 and a later
\* GET /history?status=success returned its record
C7_ExecutedThenListed ==
    /\ last.kind = "history"
    /\ last.status = Str(<<"success">>)
    /\ last.code = 200
    /\ \E i \in 1..Len(acked), k \in 1..Len(last.data) :
          /\ acked[i].code = 200
          /\ acked[i].action = Str(<<"scale_pods">>)
          /\ last.data[k].id = acked[i].id
          /\ Get(last.data[k].result, "new_replicas") = Num(5)

\* C8: concurrent valid POST /execute requests, those that arrive while the
\* database initialization is pending included, are each answered 200 and
\* each add one record; the ids in the table are pairwise distinct and every
\* id handed out is in the table exactly once.
C8_ConcurrentExecutesAllRecorded ==
    /\ (last.kind = "execute" /\ PassesGate(last.action, last.params)) =>
          /\ last.code = 200
          /\ last.appended = 1
    /\ \A i, j \in 1..Len(mem.actions) : i # j => mem.actions[i].id # mem.actions[j].id
    /\ \A i \in 1..Len(acked) :
          Cardinality({k \in 1..Len(mem.actions) : mem.actions[k].id = acked[i].id}) = 1
    /\ Cardinality({i \in 1..Len(acked) : acked[i].code = 200})
          = Cardinality({k \in 1..Len(mem.actions) : mem.actions[k].status = "success"})

\* C8: two valid requests awaited the same database initialization and
\* both are recorded
C8_TwoAwaitedBothRecorded ==
    /\ last.kind = "execute"
    /\ last.queued = 2
    /\ microQ = <<>>
    /\ Len(acked) = 2
    /\ \A i \in 1..Len(acked) : acked[i].code = 200
    /\ Len(mem.actions) = 2

\* C9: GET /history returns the records in the reverse of the order in
\* which successive POST /execute calls appended them, calls within one
\* clock tick included.
C9_HistoryNewestFirst ==
    (/\ last.kind = "history"
     /\ last.code = 200
     /\ Falsy(last.status)
     /\ HistoryLimit(last.limit) >= Len(mem.actions))
    => /\ Len(last.data) = Len(mem.actions)
       /\ \A k \in 1..Len(last.data) :
             last.data[k].id = mem.actions[Len(mem.actions) + 1 - k].id

\* C9: the case that fails: two records of one clock tick came back in the
\* order in which they were appended
C9_SameTickOldestFirst ==
    /\ last.kind = "history"
    /\ last.code = 200
    /\ Len(last.data) = 2
    /\ Len(mem.actions) = 2
    /\ mem.actions[1].timestamp = mem.actions[2].timestamp
    /\ last.data[1].id = mem.actions[1].id

\* C10: when the insert of the audit record throws after simulate has run,
\* the caller still receives the success answer.
C10_InsertFailureKeepsSuccess ==
    (last.kind = "execute" /\ last.simulated = 1 /\ last.insertThrew)
    => /\ last.code = 200
       /\ Get(last.body, "success") = Bool(TRUE)

\* C10: the case that fails: the insert threw on the closed database after
\* simulate had run, and the answer is 500
C10_InsertFailureAnswered500 ==
    /\ closing
    /\ last.kind = "execute"
    /\ last.simulated = 1
    /\ last.insertThrew
    /\ last.code = 500

\* ------------------------------------------------------------------------
\* Properties of the audit log, the registry and the validators
\* ------------------------------------------------------------------------

\* C11: the audit log is append-only: no request to /execute, /history,
\* /actions, /logs or /metrics changes or removes a record that is in the
\* actions table; every step keeps each row, field by field, at its place
C11_AuditLogAppendOnly ==
    [][\A k \in 1..Len(mem.actions) :
            /\ k <= Len(mem'.actions)
            /\ mem'.actions[k] = mem.actions[k]]_vars

\* C11: a record is in the log and a later POST /logs wrote to the database
C11_RecordKeptAfterLogWrite ==
    /\ Len(mem.actions) >= 1
    /\ last.kind = "postlog"
    /\ last.code = 201

\* C12: the allowlist is fixed: whatever requests came before, GET /actions
\* answers 200 with exactly the three entries scale_pods, restart_service
\* and notify_slack, each with its required parameter names
C12_ActionsListsTheRegistry ==
    last.kind = "actions" =>
        /\ last.code = 200
        /\ last.data =
              << [name |-> "scale_pods", required_params |-> <<"service", "replicas">>],
                 [name |-> "restart_service", required_params |-> <<"service">>],
                 [name |-> "notify_slack", required_params |-> <<"channel", "message">>] >>

\* C12: GET /actions was answered after a request for an unregistered
\* action had been recorded as rejected
C12_ListedAfterRejectedName ==
    /\ last.kind = "actions"
    /\ last.code = 200
    /\ \E i \in 1..Len(mem.actions) :
            mem.actions[i].status = "rejected" /\ mem.actions[i].action = Str(<<"delete_all">>)

\* C13: GET /history with a status value that is not success, rejected or
\* error is answered 400 and returns no records
C13_InvalidStatusRefused ==
    (/\ last.kind = "history"
     /\ last.status # Undef
     /\ last.status \notin {Str(<<s>>) : s \in ValidStatuses}) =>
        /\ last.code = 400
        /\ last.data = <<>>

\* C13: the case that fails: GET /history?status= carries the empty string,
\* which `if (status)` takes for no filter, and the records are returned
C13_EmptyStatusAnswered ==
    /\ last.kind = "history"
    /\ last.status = Str(<<>>)
    /\ last.code = 200
    /\ Len(last.data) >= 1

\* C14: GET /history is a pure read: the step that answers it leaves the
\* rows of the actions table as they are, and a GET /history that repeats
\* the status and limit of the one answered just before it, with no
\* POST /execute between them, is given the same response
C14_HistoryPureRead ==
    [][last'.kind = "history" =>
            /\ mem'.actions = mem.actions
            /\ last'.repeated => last'.same]_vars

\* C14: a query was repeated over a log that holds a record
C14_RepeatedOverRecords ==
    /\ last.kind = "history"
    /\ last.repeated
    /\ last.code = 200
    /\ Len(last.data) >= 1

\* C15: for scale_pods with a valid service and a numeric replicas, POST
\* /execute answers a replicas outside 1..20 (0, negatives, values above 20)
\* with the 400 validation failure whose validation_errors hold the message
\* that names '1 and 20', runs no effect and appends no record; every
\* integer replicas in 1..20 is allowed
C15_ReplicasRange ==
    (/\ last.kind = "execute"
     /\ last.action = Str(<<"scale_pods">>)
     /\ Get(last.params, "service").t = "str"
     /\ ServiceRegex(Get(last.params, "service").s)
     /\ Get(last.params, "replicas").t = "num") =>
        IF Get(last.params, "replicas").n \in 1..20
        THEN /\ last.code = 200
             /\ last.simulated = 1
             /\ last.appended = 1
        ELSE /\ last.code = 400
             /\ Get(last.body, "error") = Str(<<"Parameter validation failed">>)
             /\ \E i \in 1..Len(Get(last.body, "validation_errors").o) :
                    Get(last.body, "validation_errors").o[i] =
                        Str(<<"replicas must be a number between 1 and 20">>)
             /\ last.simulated = 0
             /\ last.appended = 0

\* C15: replicas 0 was refused after a request in the range had been
\* recorded
C15_ZeroRefused ==
    /\ last.kind = "execute"
    /\ last.action = Str(<<"scale_pods">>)
    /\ Get(last.params, "replicas") = Num(0)
    /\ last.code = 400
    /\ Len(mem.actions) = 1

\* the messages of the constraints of the action that the params violate
Violated(action, params) ==
    CASE action = "scale_pods" ->
            {e \in {ServiceError(params), ReplicasError(params)} : e # <<>>}
      [] action = "restart_service" -> {e \in {ServiceError(params)} : e # <<>>}
      [] action = "notify_slack" ->
            {e \in {ChannelError(params), MessageError(params)} : e # <<>>}

\* C17: when every required parameter is present and values violate the
\* constraints of the action, the validation failure of POST /execute lists
\* every violated constraint, each once, and nothing else
C17_AllViolationsListed ==
    (/\ last.kind = "execute"
     /\ IsOwnAction(ActionName(last.action))
     /\ FirstMissing(ActionName(last.action), last.params) = ""
     /\ Violated(ActionName(last.action), last.params) # {}) =>
        /\ last.code = 400
        /\ Get(last.body, "error") = Str(<<"Parameter validation failed">>)
        /\ Len(Get(last.body, "validation_errors").o) =
              Cardinality(Violated(ActionName(last.action), last.params))
        /\ \A e \in Violated(ActionName(last.action), last.params) :
              \E i \in 1..Len(Get(last.body, "validation_errors").o) :
                  Get(last.body, "validation_errors").o[i] = Str(e)

\* C17: scale_pods with a malformed service and replicas out of range was
\* answered with both messages
C17_TwoViolationsListed ==
    /\ last.kind = "execute"
    /\ last.params = BadScaleParams
    /\ last.code = 400
    /\ Len(Get(last.body, "validation_errors").o) = 2

\* the first name of `req` whose value in params is absent, null or the
\* empty string; "" when there is none
FirstAbsentNullOrEmpty(req, params) ==
    LET miss == {i \in 1..Len(req) :
                    \/ Get(params, req[i]) \in {Undef, Null}
                    \/ Get(params, req[i]) = Str(<<>>)}
    IN  IF miss = {} THEN "" ELSE req[CHOOSE i \in miss : \A j \in miss : i <= j]

\* C16: in POST /execute and in execute_remediation a required parameter
\* that is absent, null or the empty string is missing, and the failure
\* names the first such parameter in the order the registry declares
C16_MissingNamesFirst ==
    /\ (/\ last.kind = "execute"
        /\ last.params.t = "obj"
        /\ IsOwnAction(ActionName(last.action))
        /\ FirstAbsentNullOrEmpty(required_params(ActionName(last.action)), last.params) # "") =>
          /\ last.code = 400
          /\ Get(last.body, "error") =
                Str(<<"Missing required parameter: ",
                      FirstAbsentNullOrEmpty(required_params(ActionName(last.action)),
                                             last.params)>>)
    /\ (/\ mcpLast.outcome # "none"
        /\ McpIsOwnAction(ActionName(mcpLast.action))
        /\ FirstAbsentNullOrEmpty(requiredParams(ActionName(mcpLast.action)),
                                  mcpLast.params) # "") =>
          /\ ~mcpLast.success
          /\ SubSeq(mcpLast.text, 1, 2) =
                <<"Missing required parameter: ",
                  FirstAbsentNullOrEmpty(requiredParams(ActionName(mcpLast.action)),
                                         mcpLast.params)>>

\* C16: the case that fails: execute_remediation took the empty string for
\* a service and restarted it
C16_EmptyServiceRestarted ==
    /\ mcpLast.action = Str(<<"restart_service">>)
    /\ Get(mcpLast.params, "service") = Str(<<>>)
    /\ mcpLast.success
    /\ mcpLast.simulated = 1

\* the limits of LimitInputs that are numerals
NumericLimits ==
    {Str(<<"0">>), Str(<<"1">>), Str(<<"2">>), Str(<<"-", "3">>), Str(<<"2", "0", "1">>)}

\* the integer a numeral of LimitInputs denotes, written out
RequestedLimit(v) ==
    CASE v = Str(<<"0">>) -> 0
      [] v = Str(<<"1">>) -> 1
      [] v = Str(<<"2">>) -> 2
      [] v = Str(<<"-", "3">>) -> -3
      [] v = Str(<<"2", "0", "1">>) -> 201

\* the limit the claim gives the request: 50 for none, else the requested
\* limit clamped into 1..200
ClampedLimit(v) ==
    IF v \notin NumericLimits THEN 50
    ELSE IF RequestedLimit(v) < 1 THEN 1
    ELSE IF RequestedLimit(v) > 200 THEN 200
    ELSE RequestedLimit(v)

\* C18: GET /history clamps limit into 1..200: a limit below 1 (0 and
\* negatives) behaves as 1, a limit above 200 as 200, an absent or
\* non-numeric limit as 50, and the response holds the newest records up to
\* the clamped limit and never more
C18_LimitClamped ==
    (last.kind = "history" /\ last.code = 200) =>
        /\ Len(last.data) <= ClampedLimit(last.limit)
        /\ last.data = History(last.status, Str(NumToString(ClampedLimit(last.limit))),
                               db, mem, tieOrder).data

\* C18: the case that fails: limit=0 was answered with more than one record
C18_ZeroLimitAnsweredAll ==
    /\ last.kind = "history"
    /\ last.limit = Str(<<"0">>)
    /\ last.code = 200
    /\ Len(last.data) = 2

\* the rows of the actions table with the status
Matching(status) == {i \in 1..Len(mem.actions) : mem.actions[i].status = status}

\* C19: GET /history?status=s with s one of success, rejected, error
\* returns only records whose status is s, each a row of the table and none
\* twice, and returns all of them when the limit allows, else as many as
\* the limit
C19_StatusFilter ==
    \A s \in ValidStatuses :
        (last.kind = "history" /\ last.status = Str(<<s>>)) =>
            /\ last.code = 200
            /\ \A k \in 1..Len(last.data) :
                  /\ last.data[k].status = s
                  /\ \E i \in Matching(s) : last.data[k].id = mem.actions[i].id
                  /\ \A j \in 1..Len(last.data) : last.data[j].id = last.data[k].id => j = k
            /\ Len(last.data) =
                  IF Cardinality(Matching(s)) <= HistoryLimit(last.limit)
                  THEN Cardinality(Matching(s)) ELSE HistoryLimit(last.limit)

\* C19: the log holds a success and a rejected record and the query for
\* rejected returned one record
C19_RejectedOnly ==
    /\ last.kind = "history"
    /\ last.status = Str(<<"rejected">>)
    /\ Len(last.data) = 1
    /\ Matching("success") # {}

\* C20: the notify_slack effect of execute_remediation does not fail the
\* action because of the notification channel: with no webhook URL
\* configured, or with a webhook call that raises, the effect returns a
\* 'simulated' notification result and the call answers success
C20_SlackDegradesToSimulated ==
    (/\ mcpLast.action = Str(<<"notify_slack">>)
     /\ Get(mcpLast.params, "channel").t = "str"
     /\ Get(mcpLast.params, "message").t = "str"
     /\ ~slackWebhook \/ mcpLast.fetched = "throws") =>
        /\ mcpLast.success
        /\ mcpLast.outcome = "success"
        /\ mcpLast.simulated = 1
        /\ Head(mcpLast.text) = "Notification simulated to "

\* C20: a webhook is configured and the call to it raised
C20_WebhookRaised ==
    /\ mcpLast.action = Str(<<"notify_slack">>)
    /\ slackWebhook
    /\ mcpLast.fetched = "throws"
    /\ mcpLast.success

\* ------------------------------------------------------------------------
\* Properties of the MCP tools, the logs and metrics routes, the database
\* library and the MCP sessions
\* ------------------------------------------------------------------------

\* C21: every execute_remediation call that answers success has logged the
\* action to the database, and a later get_incident_history call whose
\* limit covers the log succeeds and holds a record of each action answered
\* success, with its params and reason
C21_SuccessIsLogged ==
    /\ mcpLast.success =>
          /\ mcpLast.inserted = 1
          /\ executions # <<>>
          /\ executions[Len(executions)].action = mcpLast.action
          /\ executions[Len(executions)].params = JsonStringify(mcpLast.params)
          /\ executions[Len(executions)].reason = mcpLast.reason
    /\ (mcpHistory.called /\ mcpHistory.limit >= mcpHistory.counted) =>
          /\ mcpHistory.success
          /\ Len(mcpHistory.history) = mcpHistory.counted

\* C21: the case that fails: a call was answered success without a record,
\* and get_incident_history failed on the missing table
C21_SuccessNotInHistory ==
    /\ mcpLast.success
    /\ mcpLast.inserted = 0
    /\ mcpHistory.called
    /\ mcpHistory.counted >= 1
    /\ ~mcpHistory.success
    /\ mcpHistory.error = <<"no such table: executions">>

\* C22: for every action name outside the six entries of the MCP allowlist,
\* given as action, name or tool, execute_remediation runs no effect, leaves
\* the remediation counter and the executions table alone, and answers
\* success=false with the list of the allowed actions
C22_McpUnknownActionRefused ==
    (/\ mcpLast.outcome # "none"
     /\ ~Falsy(ArgAction(mcpLast.args))
     /\ ~McpIsOwnAction(ActionName(ArgAction(mcpLast.args)))) =>
        /\ mcpLast.simulated = 0
        /\ mcpLast.counted = 0
        /\ mcpLast.inserted = 0
        /\ ~mcpLast.success
        /\ mcpLast.outcome = "failure"
        /\ mcpLast.text = <<"Action '">> \o ArgAction(mcpLast.args).s
                             \o <<"' not allowed. Allowed: ">> \o McpAllowedActions

\* C22: the case that fails: a name Object.prototype defines, given as
\* tool, passed the lookup and the call threw
C22_InheritedToolThrew ==
    /\ Get(mcpLast.args, "tool") = Str(<<"constructor">>)
    /\ mcpLast.outcome = "threw"
    /\ mcpLast.text = <<"actionDef.requiredParams is not iterable">>

\* C23: POST /logs with level, service or message missing, or with a level
\* outside info, warn, error, debug, fatal, returns 400 and leaves the logs
\* store unchanged; every other POST /logs inserts exactly one record with a
\* fresh id and returns 201
C23_PostLogContract ==
    last.kind = "postlog" =>
        IF \/ Falsy(Get(last.log, "level"))
           \/ Falsy(Get(last.log, "service"))
           \/ Falsy(Get(last.log, "message"))
           \/ Get(last.log, "level") \notin {Str(<<l>>) : l \in ValidLevels}
        THEN /\ last.code = 400
             /\ last.appended = 0
        ELSE /\ last.code = 201
             /\ last.appended = 1
             /\ mem.logIds # <<>>
             /\ Get(last.body, "id") = Str(mem.logIds[Len(mem.logIds)])
             /\ \A i \in 1..(Len(mem.logIds) - 1) : mem.logIds[i] # mem.logIds[Len(mem.logIds)]

\* C23: the case that fails: a body with a numeric message was inserted
\* and answered 500
C23_NumericMessageInserted ==
    /\ last.kind = "postlog"
    /\ Get(last.log, "message") = Num(503)
    /\ last.code = 500
    /\ last.appended = 1
    /\ mem.logs = SeedCount + 1

\* the ranges generateMetrics() draws cpu_percent from
AnomalyRange == 78..99

NormalRange == 15..75

\* C24: anomaly mode is false at first and afterwards equals the last boolean
\* accepted by POST /metrics/anomaly: a request whose enabled is not a boolean
\* is answered 400 and leaves the mode as it was, one whose enabled is a
\* boolean is answered 200 and sets it; GET /metrics/history leaves it alone;
\* every GET /metrics snapshot reports the current mode and has its
\* cpu_percent drawn from the anomaly range, which lies at or above 70, exactly
\* when the mode is on, and from the normal range otherwise.
C24_AnomalyModeTracksAccepted ==
    [][ /\ last'.kind = "anomaly" /\ Get(last'.params, "enabled").t = "bool" =>
            /\ last'.code = 200
            /\ anomalyMode' = (Get(last'.params, "enabled").n = 1)
        /\ last'.kind = "anomaly" /\ Get(last'.params, "enabled").t # "bool" =>
            /\ last'.code = 400
            /\ anomalyMode' = anomalyMode
        /\ last'.kind = "metricshistory" => anomalyMode' = anomalyMode
        /\ last'.kind = "metrics" =>
            /\ anomalyMode' = anomalyMode
            /\ last'.data[1].anomaly_mode = anomalyMode
            /\ last'.data[1].cpu_percent \in AnomalyRange <=> anomalyMode
            /\ last'.data[1].cpu_percent \in NormalRange <=> ~anomalyMode
            /\ anomalyMode => last'.data[1].cpu_percent >= 70 ]_vars

\* a non-boolean enabled was refused while the mode was on, and the mode stayed on
C24_RefusedWhileOn ==
    /\ last.kind = "anomaly"
    /\ last.code = 400
    /\ Get(last.params, "enabled") = Str(<<"yes">>)
    /\ anomalyMode

\* limit of GET /metrics/history brought into 1..MAX_HISTORY, 10 when it is
\* absent or not a number
ClampedMetricsLimit(v) ==
    LET p == parseInt(v)
        n == IF p.nan THEN 10 ELSE p.n
        lo == IF n < 1 THEN 1 ELSE n
    IN  IF lo > MAX_HISTORY THEN MAX_HISTORY ELSE lo

\* C25: the metrics history never holds more than MAX_HISTORY snapshots; it
\* holds the most recent ones in the order they were taken, so a snapshot taken
\* when it is full evicts the oldest; GET /metrics/history?limit=n answers the
\* most recent min(size, n clamped to 1..MAX_HISTORY) snapshots in that order
\* and leaves the history as it was.
C25_HistoryBoundedAndSliced ==
    /\ Len(metricsHistory) <= MAX_HISTORY
    /\ \A i \in 1..Len(metricsHistory) :
          metricsHistory[i].id = uuidv4(nextId - Len(metricsHistory) + i - 1)
    /\ last.kind = "metricshistory" =>
          last.data = SliceLast(metricsHistory, ClampedMetricsLimit(last.limit))

\* limit=0 was answered with ten snapshots
C25_ZeroLimitAnsweredTen ==
    /\ last.kind = "metricshistory"
    /\ last.limit = Str(<<"0">>)
    /\ Len(metricsHistory) = MAX_HISTORY
    /\ Len(last.data) = 10

SeedRows == mem.logs - Len(mem.logIds)

\* C27: the logs table is seeded only when it is empty and at most once: it
\* holds none or exactly SeedCount seed rows, exactly SeedCount once the
\* table exists, also when several first requests awaited the database
\* inside ensureTables() together: the one resumed first seeds the table, and
\* the others find a table that is not empty and leave it alone.
C27_SeededOnce ==
    /\ SeedRows \in {0, SeedCount}
    /\ "logs" \in mem.tables => SeedRows = SeedCount
    /\ last.inLogsInit /\ last.queued > 1 => SeedRows = SeedCount

\* two first requests awaited the database inside ensureTables() of logs-db
\* and both were resumed
C27_TwoFirstRequestsSeededOnce ==
    /\ last.inLogsInit
    /\ last.queued = 2
    /\ microQ = <<>>
    /\ mem.logs = SeedCount + Len(mem.logIds)

\* C28: whenever the tablesReady flag of remediation-executor is set, the
\* shared database is open and holds the actions table, and no /execute or
\* /history request answered while it is set fails for lack of a database or
\* of the table; this includes the states after database.close().
C28_TablesReadyMeansDatabase ==
    /\ tablesReady => db = "open" /\ "actions" \in mem.tables
    /\ tablesReady /\ last.kind = "execute" => ~last.insertThrew
    /\ tablesReady /\ last.kind = "history" => last.code # 500

\* after database.close() the flag is still set, and a valid POST /execute
\* was answered 500
C28_ExecuteAfterCloseFailed ==
    /\ closing
    /\ tablesReady
    /\ db = "null"
    /\ last.kind = "execute"
    /\ last.insertThrew
    /\ last.code = 500

\* C29: every POST /mcp request that carries a session id this server issued,
\* whose session was neither closed nor deleted, is routed to the transport
\* of that session and creates no session, also while the request that
\* created the session is still being handled; and the sessions map never
\* holds two entries for one session id.
C29_IssuedSessionRouted ==
    /\ sessionLast.kind = "post" /\ sessionLast.live =>
          /\ sessionLast.routed = "existing"
          /\ transports[sessionLast.transport].sessionId = sessionLast.sid
    /\ \A i, j \in 1..Len(sessions) : sessions[i].id = sessions[j].id => i = j

\* a request with the id of a session whose creating request was still being
\* handled got a new transport
C29_SecondTransportForIssuedId ==
    /\ sessionLast.kind = "post"
    /\ sessionLast.live
    /\ sessionLast.routed = "created"
    /\ sessionLast.transport = 2
    /\ transports[1].sessionId = sessionLast.sid

=============================================================================
